---- MODULE Spec2Model ----
(***************************************************************************)
(* Model of two in-process services of the material-kai-vision-platform:   *)
(*                                                                         *)
(*   HybridAIService   (src/services/hybridAIService.ts): the provider     *)
(*                     fallback dispatcher, processRequest.                *)
(*   PDFWorkflowService (pdfWorkflowService.ts): the in-memory job/step    *)
(*                     mirror with push subscriptions.                     *)
(*                                                                         *)
(* Scores are kept in tenths (0.7 is 7).  Optional JavaScript values are   *)
(* sequences: << >> is undefined, <<v>> is the value v.  Wall-clock fields *)
(* (processing_time_ms, startTime, endTime, duration) are left out: no     *)
(* branch of the modelled code reads them.                                 *)
(***************************************************************************)
EXTENDS Integers, Sequences, FiniteSets, TLC

VARIABLES
    \* ---- HybridAIService ----
    providers,      \* the PROVIDERS table of the instance
    request,        \* the HybridRequest being processed
    attempts,       \* processRequest: const attempts
    bestResult,     \* processRequest: let bestResult
    bestScore,      \* processRequest: let bestScore
    idx,            \* position of the for..of loop in sortedProviders
    hpc,            \* position of processRequest: idle, loop, return, done, raised
    response,       \* the HybridResponse returned, << >> before the return
    calls,          \* history: every provider invocation and what it produced
    \* ---- PDFWorkflowService ----
    jobs,           \* private jobs: Map<string, WorkflowJob>
    callbacks,      \* private callbacks: Set<WorkflowEventCallback>
    unsubscribers,  \* the functions subscribe has returned: [callback, called]
    workflow,       \* per job, where its executeWorkflow call stands
    event,          \* history: the operation that produced this state
    notifications,  \* history: what that operation passed to which callbacks
    \* ---- convertapi-pdf-processor (the serve handler) ----
    ppc,                     \* where the handler stands (the await it is at)
    htmlFile,                \* const htmlFile, << >> outside STEP 2
    htmlContent,             \* let htmlContent
    imageUrls,               \* const imageUrls
    base64Images,            \* const base64Images
    loopIndex,               \* let i of the loop in progress
    processedImages,         \* const processedImages
    processedBase64Images,   \* const processedBase64Images
    finalHtmlContent,        \* let finalHtmlContent, << >> before STEP 4
    knowledgeEntry,          \* const knowledgeEntry, << >> before STEP 6
    thrown,                  \* the message of the error the catch block holds
    processingRecord,        \* the row of the run in pdf_processing_results
    enhanced_knowledge_base, \* the rows the run inserted
    httpResponse,            \* the Response returned, << >> before the return
    stages,                  \* history: the stages started and ended
    warnings,                \* history: the non-fatal failures logged
    pevent,                  \* history: the call that settled last
    \* ---- the text stages of the handler, applied on their own ----
    textCall                 \* history: the function applied, to what, its result

hybridVars == <<providers, request, attempts, bestResult, bestScore, idx, hpc,
                response, calls>>

workflowVars == <<jobs, callbacks, unsubscribers, workflow, event,
                  notifications>>

localVars == <<htmlFile, htmlContent, imageUrls, base64Images, loopIndex,
               processedImages, processedBase64Images, finalHtmlContent,
               knowledgeEntry>>

storeVars == <<processingRecord, enhanced_knowledge_base>>

pipelineVars == <<ppc, localVars, storeVars, thrown, httpResponse, stages,
                  warnings, pevent>>

textVars == <<textCall>>

vars == <<hybridVars, workflowVars, pipelineVars, textVars>>

Undefined == << >>
Some(v) == <<v>>

(***************************************************************************)
(* JavaScript values a provider call can resolve to, by the properties     *)
(* validateResponse and processRequest read: truthiness, whether one of    *)
(* text / raw_response / image_url is truthy, Object.keys(v).length,       *)
(* whether v.error is truthy and whether v.status === 'error'.             *)
(*                                                                         *)
(* callOpenAI and callClaude are the provider boundary.  In this file they *)
(* are placeholders that throw; processRequest is written for providers    *)
(* that answer, so a call is given every outcome the loop distinguishes:   *)
(* an Error thrown, or one of these values resolved.                       *)
(***************************************************************************)
JsValue(js, truthy, content, keys, error, statusError) ==
    [js |-> js, truthy |-> truthy, content |-> content, keys |-> keys,
     error |-> error, statusError |-> statusError]

jsNull == JsValue("null", FALSE, FALSE, 0, FALSE, FALSE)
jsEmptyString == JsValue("''", FALSE, FALSE, 0, FALSE, FALSE)
jsEmptyObject == JsValue("{}", TRUE, FALSE, 0, FALSE, FALSE)
jsText == JsValue("{text}", TRUE, TRUE, 1, FALSE, FALSE)
jsError == JsValue("{error}", TRUE, FALSE, 1, TRUE, FALSE)
jsStatusError == JsValue("{status:'error'}", TRUE, FALSE, 1, FALSE, TRUE)
jsTextAndError == JsValue("{text,error}", TRUE, TRUE, 2, TRUE, FALSE)
jsOtherKey == JsValue("{status:'ok'}", TRUE, FALSE, 1, FALSE, FALSE)

ProviderResults ==
    {jsNull, jsEmptyString, jsEmptyObject, jsText, jsError, jsStatusError,
     jsTextAndError, jsOtherKey}

ErrorMessages ==
    {"Use callHybridAnalysis instead for client-side calls", "timeout"}

\* ---- the provider table ----
PROVIDERS ==
    << [name |-> "openai", priority |-> 1, available |-> TRUE],
       [name |-> "claude", priority |-> 2, available |-> TRUE] >>

\* The tables checked: the names of PROVIDERS, every availability of each
\* entry, and both orders of the two priorities.  PROVIDERS is one of them.
ProviderTables ==
    { << [name |-> "openai", priority |-> p1, available |-> a1],
         [name |-> "claude", priority |-> p2, available |-> a2] >> :
        <<p1, p2, a1, a2>> \in
            { t \in (1..2) \X (1..2) \X BOOLEAN \X BOOLEAN : t[1] # t[2] } }

DEFAULT_MIN_SCORE == 7
DEFAULT_MAX_RETRIES == 2

\* ---- bounds of the inputs ----
MaxRetriesInput == 3
MinimumScoreInputs == {0, 1, 3, 7, 9, 10}

Requests ==
    [minimumScore : {Undefined} \cup {Some(s) : s \in MinimumScoreInputs},
     maxRetries : {Undefined} \cup {Some(n) : n \in 0..MaxRetriesInput}]

\* a ?? b
Coalesce(a, b) == IF a = Undefined THEN b ELSE a[1]

minimumScore == Coalesce(request.minimumScore, DEFAULT_MIN_SCORE)
maxRetries == Coalesce(request.maxRetries, DEFAULT_MAX_RETRIES)

\* ---- Array.prototype.sort((a, b) => a.priority - b.priority): stable ----
RECURSIVE InsertByPriority(_, _)
InsertByPriority(p, s) ==
    IF s = << >> THEN <<p>>
    ELSE IF p.priority < Head(s).priority THEN <<p>> \o s
    ELSE <<Head(s)>> \o InsertByPriority(p, Tail(s))

RECURSIVE SortByPriority(_)
SortByPriority(s) ==
    IF s = << >> THEN << >>
    ELSE InsertByPriority(s[Len(s)], SortByPriority(SubSeq(s, 1, Len(s) - 1)))

SortByPriorityDescending(s) ==
    LET a == SortByPriority(s) IN [i \in 1..Len(a) |-> a[Len(a) + 1 - i]]

sortedProviders_descending(table) ==
    SortByPriorityDescending(SelectSeq(table, LAMBDA p : p.available))

sortedProviders(table) ==
    SortByPriority(SelectSeq(table, LAMBDA p : p.available))

\* ---- validateResponse ----
hasContent(result) == result.truthy /\ (result.content \/ result.keys > 0)
hasError(result) == result.truthy /\ (result.error \/ result.statusError)

validateResponse_content_first(result) ==
    [score |-> IF hasContent(result) THEN 9
               ELSE IF hasError(result) THEN 1 ELSE 3]

validateResponse(result) ==
    [score |-> IF hasError(result) THEN 1
               ELSE IF hasContent(result) THEN 9 ELSE 3]

\* ---- the conditions of the loop ----
BudgetExhausted_off_by_one(att, max) == Len(att) > max

\* if (attempts.length >= maxRetries) break;
BudgetExhausted(att, max) == Len(att) >= max

MeetsThreshold_strict(score, min) == score > min

\* if (validation.score >= minimumScore) break;
MeetsThreshold(score, min) == score >= min

IsBetter_or_equal(score, best) == score >= best

\* if (validation.score > bestScore)
IsBetter(score, best) == score > best

\* ---- the two attempt records ----
SuccessAttempt(name, score) ==
    [provider |-> name, success |-> TRUE, score |-> Some(score),
     error |-> Undefined]

FailedAttempt(name, message) ==
    [provider |-> name, success |-> FALSE, score |-> Undefined,
     error |-> Some(message)]

\* ---- the catch block of one attempt ----
CatchAttempt_rethrow(att, name, message) ==
    [attempts |-> att, hpc |-> "raised"]

CatchAttempt_stops(att, name, message) ==
    [attempts |-> Append(att, FailedAttempt(name, message)), hpc |-> "return"]

CatchAttempt(att, name, message) ==
    [attempts |-> Append(att, FailedAttempt(name, message)), hpc |-> "loop"]

\* attempts.find(a => a.score === bestScore)?.provider || 'unknown'
FindProvider(att, score) ==
    LET hits == {i \in 1..Len(att) : att[i].score = Some(score)}
    IN  IF hits = {} THEN "unknown"
        ELSE att[CHOOSE i \in hits : \A k \in hits : i <= k].provider

SuccessResponse(att, result, score) ==
    [success |-> TRUE, data |-> result, provider |-> FindProvider(att, score),
     attempts |-> att, final_score |-> score]

FailureResponse(att) ==
    [success |-> FALSE, data |-> jsNull, provider |-> "none",
     attempts |-> att, final_score |-> 0]

\* if (bestResult) {...} else {...}
BuildResponse(att, result, score) ==
    IF result.truthy THEN SuccessResponse(att, result, score)
    ELSE FailureResponse(att)

\* a constructed HybridAIService with no request made, for a table in tables
HybridInit(tables) ==
    /\ providers \in tables
    /\ request = [minimumScore |-> Undefined, maxRetries |-> Undefined]
    /\ attempts = << >>
    /\ bestResult = jsNull
    /\ bestScore = 0
    /\ idx = 1
    /\ hpc = "idle"
    /\ response = Undefined
    /\ calls = << >>

\* processRequest(request): the locals up to the loop
processRequest(req) ==
    /\ hpc \in {"idle", "done"}
    /\ request' = req
    /\ attempts' = << >>
    /\ bestResult' = jsNull
    /\ bestScore' = 0
    /\ idx' = 1
    /\ hpc' = "loop"
    /\ response' = Undefined
    /\ calls' = << >>
    /\ UNCHANGED <<providers, workflowVars, pipelineVars, textVars>>

InLoop ==
    /\ hpc = "loop"
    /\ idx <= Len(sortedProviders(providers))
    /\ ~BudgetExhausted(attempts, maxRetries)

\* one iteration whose provider call resolves to result
AttemptReturns(result) ==
    /\ InLoop
    /\ LET provider == sortedProviders(providers)[idx]
           validation == validateResponse(result)
       IN  /\ calls' = Append(calls, [provider |-> provider.name,
                                      threw |-> FALSE, result |-> result])
           /\ attempts' = Append(attempts,
                                 SuccessAttempt(provider.name, validation.score))
           /\ IF IsBetter(validation.score, bestScore)
              THEN bestResult' = result /\ bestScore' = validation.score
              ELSE UNCHANGED <<bestResult, bestScore>>
           /\ IF MeetsThreshold(validation.score, minimumScore)
              THEN hpc' = "return" /\ UNCHANGED idx
              ELSE hpc' = "loop" /\ idx' = idx + 1
    /\ UNCHANGED <<providers, request, response, workflowVars, pipelineVars, textVars>>

\* one iteration whose provider call throws an Error with this message
AttemptThrows(message) ==
    /\ InLoop
    /\ LET provider == sortedProviders(providers)[idx]
           caught == CatchAttempt(attempts, provider.name, message)
       IN  /\ calls' = Append(calls, [provider |-> provider.name,
                                      threw |-> TRUE, result |-> jsNull])
           /\ attempts' = caught.attempts
           /\ hpc' = caught.hpc
           /\ idx' = idx + 1
    /\ UNCHANGED <<providers, request, bestResult, bestScore, response,
                   workflowVars, pipelineVars, textVars>>

\* the loop ends: the list is exhausted or the budget is spent
LoopEnds ==
    /\ hpc = "loop"
    /\ \/ idx > Len(sortedProviders(providers))
       \/ BudgetExhausted(attempts, maxRetries)
    /\ hpc' = "return"
    /\ UNCHANGED <<providers, request, attempts, bestResult, bestScore, idx,
                   response, calls, workflowVars, pipelineVars, textVars>>

\* Return best result or failure
Return ==
    /\ hpc = "return"
    /\ response' = Some(BuildResponse(attempts, bestResult, bestScore))
    /\ hpc' = "done"
    /\ UNCHANGED <<providers, request, attempts, bestResult, bestScore, idx,
                   calls, workflowVars, pipelineVars, textVars>>

HybridNext ==
    \/ \E req \in Requests : processRequest(req)
    \/ \E result \in ProviderResults : AttemptReturns(result)
    \/ \E message \in ErrorMessages : AttemptThrows(message)
    \/ LoopEnds
    \/ Return


(***************************************************************************)
(* PDFWorkflowService                                                      *)
(***************************************************************************)
\* the ids of the steps startPDFProcessing creates, in order
STEP_IDS ==
    << "auth", "upload", "validation", "convertapi-conversion",
       "html-extraction", "image-discovery", "image-download",
       "html-finalization", "layout-analysis", "image-processing",
       "embedding-generation", "knowledge-storage", "indexing",
       "quality-metrics" >>

\* the steps whose executor in executeWorkflow has a throw statement or calls
\* supabase.auth / storage / functions; the others only await a timer
RejectingSteps == {"auth", "upload", "html-finalization", "knowledge-storage"}

\* ---- the inputs ----
\* The ids startPDFProcessing draws (`job-${Date.now()}-${random}`) and the
\* callbacks the callers pass to subscribe.
JobIds == {"job-1"}
CallbackIds == {"cb1", "cb2"}

\* a WorkflowStep as startPDFProcessing creates it
NewStep(id) ==
    [id |-> id, status |-> "pending", startTime |-> Undefined,
     endTime |-> Undefined, duration |-> Undefined, error |-> Undefined,
     logs |-> Undefined, details |-> << >>, metadata |-> Undefined]

\* a WorkflowJob as startPDFProcessing creates it
NewJob(jobId) ==
    [id |-> jobId, status |-> "running", endTime |-> Undefined,
     steps |-> [i \in 1..Len(STEP_IDS) |-> NewStep(STEP_IDS[i])]]

\* the Partial<WorkflowStep> values executeStep and executeWorkflow pass
RunningUpdate ==
    [status |-> "running", startTime |-> Some("now"),
     logs |-> Some(<<"Started at">>)]

CompletedUpdate ==
    [status |-> "completed", endTime |-> Some("now"),
     duration |-> Some("ms"), details |-> <<"details">>,
     metadata |-> Some("metadata"),
     logs |-> Some(<<"Completed at", "Duration">>)]

FailedUpdate ==
    [status |-> "failed", endTime |-> Some("now"), duration |-> Some("ms"),
     error |-> Some("message"),
     logs |-> Some(<<"Failed at", "Duration", "Error">>)]

CatchUpdate ==
    [status |-> "failed", endTime |-> Some("now"),
     error |-> Some("message"), logs |-> Some(<<"Error">>)]

\* { ...step, ...updates }
Spread(step, updates) ==
    [f \in DOMAIN step |->
        IF f \in DOMAIN updates THEN updates[f] ELSE step[f]]

\* job.steps.findIndex(s => s.id === stepId), 0 for -1
findIndex(steps, stepId) ==
    LET hits == {i \in 1..Len(steps) : steps[i].id = stepId}
    IN  IF hits = {} THEN 0 ELSE CHOOSE i \in hits : \A k \in hits : i <= k

DeriveStatus_without_failed(job, updates) ==
    IF \A i \in 1..Len(job.steps) : job.steps[i].status = "completed"
    THEN [job EXCEPT !.status = "completed", !.endTime = Some("now")]
    ELSE IF \E i \in 1..Len(job.steps) : job.steps[i].status = "running"
    THEN [job EXCEPT !.status = "running"]
    ELSE job

\* the job status updateJobStep derives after the step is replaced
DeriveStatus(job, updates) ==
    IF "status" \in DOMAIN updates /\ updates.status = "failed"
    THEN [job EXCEPT !.status = "failed", !.endTime = Some("now")]
    ELSE IF \A i \in 1..Len(job.steps) : job.steps[i].status = "completed"
    THEN [job EXCEPT !.status = "completed", !.endTime = Some("now")]
    ELSE IF \E i \in 1..Len(job.steps) : job.steps[i].status = "running"
    THEN [job EXCEPT !.status = "running"]
    ELSE job

\* whether updateJobStep gets past its two early returns
Applies(js, jobId, stepId) ==
    /\ jobId \in DOMAIN js
    /\ findIndex(js[jobId].steps, stepId) # 0

\* updateJobStep up to this.jobs.set(jobId, job): the new map
updateJobStep(js, jobId, stepId, updates) ==
    IF ~Applies(js, jobId, stepId) THEN js
    ELSE LET job == js[jobId]
             i == findIndex(job.steps, stepId)
             replaced == [job EXCEPT !.steps[i] = Spread(job.steps[i], updates)]
         IN  [js EXCEPT ![jobId] = DeriveStatus(replaced, updates)]

notifyUpdate_skip_first(cbs, job) ==
    [job |-> job, to |-> cbs \ {CHOOSE c \in CallbackIds : TRUE}]

\* notifyUpdate(job): this.callbacks.forEach(callback => callback(job))
notifyUpdate(cbs, job) == [job |-> job, to |-> cbs]

UpdateNotifications_before_status(js, cbs, jobId, stepId, updates) ==
    IF Applies(js, jobId, stepId)
    THEN LET job == js[jobId]
             i == findIndex(job.steps, stepId)
         IN  << notifyUpdate(cbs, [job EXCEPT !.steps[i] =
                                      Spread(job.steps[i], updates)]) >>
    ELSE << >>

\* the notifications of one updateJobStep call
UpdateNotifications(js, cbs, jobId, stepId, updates) ==
    IF Applies(js, jobId, stepId)
    THEN << notifyUpdate(cbs, updateJobStep(js, jobId, stepId, updates)[jobId]) >>
    ELSE << >>

Event(op, jobId, stepId, applied, cb) ==
    [op |-> op, job |-> jobId, step |-> stepId, applied |-> applied, cb |-> cb]

WorkflowInit ==
    /\ jobs = << >>
    /\ callbacks = {}
    /\ unsubscribers = {}
    /\ workflow = << >>
    /\ event = Event("new", "", "", FALSE, "")
    /\ notifications = << >>

\* subscribe(callback)
subscribe(cb) ==
    /\ callbacks' = callbacks \cup {cb}
    /\ unsubscribers' = unsubscribers \cup {[callback |-> cb, called |-> FALSE]}
    /\ event' = Event("subscribe", "", "", TRUE, cb)
    /\ notifications' = << >>
    /\ UNCHANGED <<jobs, workflow, hybridVars, pipelineVars, textVars>>

\* () => this.callbacks.delete(callback)
Delete(cbs, cb) == cbs \ {cb}

\* a call of a function that subscribe returned
unsubscribe(cb, again) ==
    /\ [callback |-> cb, called |-> again] \in unsubscribers
    /\ callbacks' = Delete(callbacks, cb)
    /\ unsubscribers' = (unsubscribers \ {[callback |-> cb, called |-> again]})
                          \cup {[callback |-> cb, called |-> TRUE]}
    /\ event' = Event(IF again THEN "unsubscribe again" ELSE "unsubscribe",
                      "", "", cb \in callbacks, cb)
    /\ notifications' = << >>
    /\ UNCHANGED <<jobs, workflow, hybridVars, pipelineVars, textVars>>

\* startPDFProcessing(file), which runs executeWorkflow up to the first await:
\* the job is stored and notified, then executeStep marks 'auth' running
startPDFProcessing(jobId) ==
    /\ jobId \notin DOMAIN jobs
    /\ LET stored == [k \in DOMAIN jobs \cup {jobId} |->
                         IF k = jobId THEN NewJob(jobId) ELSE jobs[k]]
       IN  /\ jobs' = updateJobStep(stored, jobId, STEP_IDS[1], RunningUpdate)
           /\ notifications' =
                 <<notifyUpdate(callbacks, stored[jobId])>> \o
                 UpdateNotifications(stored, callbacks, jobId, STEP_IDS[1],
                                     RunningUpdate)
    /\ workflow' = [k \in DOMAIN workflow \cup {jobId} |->
                       IF k = jobId THEN [pc |-> "await", pos |-> 1]
                       ELSE workflow[k]]
    /\ event' = Event("startPDFProcessing", jobId, STEP_IDS[1], TRUE, "")
    /\ UNCHANGED <<callbacks, unsubscribers, hybridVars, pipelineVars, textVars>>

ExecutorResolves_without_update(jobId) ==
    /\ jobId \in DOMAIN workflow
    /\ workflow[jobId].pc = "await"
    /\ LET pos == workflow[jobId].pos
       IN  /\ notifications' = << >>
           /\ event' = Event("updateJobStep", jobId, STEP_IDS[pos], FALSE, "")
           /\ workflow' = [workflow EXCEPT ![jobId] =
                              IF pos = Len(STEP_IDS)
                              THEN [pc |-> "ended", pos |-> pos]
                              ELSE [pc |-> "next", pos |-> pos + 1]]
    /\ UNCHANGED <<jobs, callbacks, unsubscribers, hybridVars, pipelineVars,
                   textVars>>

\* executeStep: the executor resolves, the step is marked completed, and
\* executeWorkflow goes on to its next executeStep call or ends
ExecutorResolves(jobId) ==
    /\ jobId \in DOMAIN workflow
    /\ workflow[jobId].pc = "await"
    /\ LET pos == workflow[jobId].pos
       IN  /\ jobs' = updateJobStep(jobs, jobId, STEP_IDS[pos], CompletedUpdate)
           /\ notifications' = UpdateNotifications(jobs, callbacks, jobId,
                                                   STEP_IDS[pos], CompletedUpdate)
           /\ event' = Event("updateJobStep", jobId, STEP_IDS[pos],
                             Applies(jobs, jobId, STEP_IDS[pos]), "")
           /\ workflow' = [workflow EXCEPT ![jobId] =
                              IF pos = Len(STEP_IDS)
                              THEN [pc |-> "ended", pos |-> pos]
                              ELSE [pc |-> "next", pos |-> pos + 1]]
    /\ UNCHANGED <<callbacks, unsubscribers, hybridVars, pipelineVars, textVars>>

\* executeStep: the step is marked running and its executor is called
StepStarts(jobId) ==
    /\ jobId \in DOMAIN workflow
    /\ workflow[jobId].pc = "next"
    /\ LET pos == workflow[jobId].pos
       IN  /\ jobs' = updateJobStep(jobs, jobId, STEP_IDS[pos], RunningUpdate)
           /\ notifications' = UpdateNotifications(jobs, callbacks, jobId,
                                                   STEP_IDS[pos], RunningUpdate)
           /\ event' = Event("updateJobStep", jobId, STEP_IDS[pos],
                             Applies(jobs, jobId, STEP_IDS[pos]), "")
           /\ workflow' = [workflow EXCEPT ![jobId].pc = "await"]
    /\ UNCHANGED <<callbacks, unsubscribers, hybridVars, pipelineVars, textVars>>

ExecutorRejects_continues(jobId) ==
    /\ jobId \in DOMAIN workflow
    /\ workflow[jobId].pc = "await"
    /\ STEP_IDS[workflow[jobId].pos] \in RejectingSteps
    /\ LET pos == workflow[jobId].pos
       IN  /\ jobs' = updateJobStep(jobs, jobId, STEP_IDS[pos], FailedUpdate)
           /\ notifications' = UpdateNotifications(jobs, callbacks, jobId,
                                                   STEP_IDS[pos], FailedUpdate)
           /\ event' = Event("updateJobStep", jobId, STEP_IDS[pos],
                             Applies(jobs, jobId, STEP_IDS[pos]), "")
           /\ workflow' = [workflow EXCEPT ![jobId] =
                              [pc |-> "next", pos |-> pos + 1]]
    /\ UNCHANGED <<callbacks, unsubscribers, hybridVars, pipelineVars, textVars>>

\* executeStep: the executor rejects, the step is marked failed, and the error
\* is thrown on to executeWorkflow
ExecutorRejects(jobId) ==
    /\ jobId \in DOMAIN workflow
    /\ workflow[jobId].pc = "await"
    /\ STEP_IDS[workflow[jobId].pos] \in RejectingSteps
    /\ LET pos == workflow[jobId].pos
       IN  /\ jobs' = updateJobStep(jobs, jobId, STEP_IDS[pos], FailedUpdate)
           /\ notifications' = UpdateNotifications(jobs, callbacks, jobId,
                                                   STEP_IDS[pos], FailedUpdate)
           /\ event' = Event("updateJobStep", jobId, STEP_IDS[pos],
                             Applies(jobs, jobId, STEP_IDS[pos]), "")
           /\ workflow' = [workflow EXCEPT ![jobId].pc = "catch"]
    /\ UNCHANGED <<callbacks, unsubscribers, hybridVars, pipelineVars, textVars>>

\* job.steps.find(s => s.status === 'running'), 0 for undefined
findRunning(steps) ==
    LET hits == {i \in 1..Len(steps) : steps[i].status = "running"}
    IN  IF hits = {} THEN 0 ELSE CHOOSE i \in hits : \A k \in hits : i <= k

\* executeWorkflow: the catch block marks the running step, if any, failed
CatchWorkflow(jobId) ==
    /\ jobId \in DOMAIN workflow
    /\ workflow[jobId].pc = "catch"
    /\ LET r == IF jobId \in DOMAIN jobs
                THEN findRunning(jobs[jobId].steps) ELSE 0
       IN  IF r # 0
           THEN /\ jobs' = updateJobStep(jobs, jobId, jobs[jobId].steps[r].id,
                                         CatchUpdate)
                /\ notifications' =
                      UpdateNotifications(jobs, callbacks, jobId,
                                          jobs[jobId].steps[r].id, CatchUpdate)
                /\ event' = Event("updateJobStep", jobId,
                                  jobs[jobId].steps[r].id, TRUE, "")
           ELSE /\ UNCHANGED jobs
                /\ notifications' = << >>
                /\ event' = Event("catch", jobId, "", FALSE, "")
    /\ workflow' = [workflow EXCEPT ![jobId].pc = "ended"]
    /\ UNCHANGED <<callbacks, unsubscribers, hybridVars, pipelineVars, textVars>>

ResetStep_keeps_completed(step) ==
    IF step.status = "completed" THEN step
    ELSE [step EXCEPT !.status = "pending", !.startTime = Undefined,
                      !.endTime = Undefined, !.duration = Undefined,
                      !.error = Undefined, !.logs = Some(<< >>),
                      !.details = << >>, !.metadata = Some("{}")]

\* step => { step.status = 'pending'; ... } of retryJob
ResetStep(step) ==
    [step EXCEPT !.status = "pending", !.startTime = Undefined,
                 !.endTime = Undefined, !.duration = Undefined,
                 !.error = Undefined, !.logs = Some(<< >>),
                 !.details = << >>, !.metadata = Some("{}")]

ResetJob_keeps_status(job) ==
    [job EXCEPT !.endTime = Undefined,
                !.steps = [i \in 1..Len(job.steps) |-> ResetStep(job.steps[i])]]

\* retryJob up to this.jobs.set(jobId, job): the reset job
ResetJob(job) ==
    [job EXCEPT !.status = "pending", !.endTime = Undefined,
                !.steps = [i \in 1..Len(job.steps) |-> ResetStep(job.steps[i])]]

retryJob_evicts(jobId) ==
    /\ IF jobId \in DOMAIN jobs
       THEN /\ jobs' = [k \in DOMAIN jobs \ {jobId} |-> jobs[k]]
            /\ notifications' = <<notifyUpdate(callbacks, ResetJob(jobs[jobId]))>>
            /\ event' = Event("retryJob", jobId, "", TRUE, "")
       ELSE /\ UNCHANGED jobs
            /\ notifications' = << >>
            /\ event' = Event("retryJob", jobId, "", FALSE, "")
    /\ UNCHANGED <<callbacks, unsubscribers, workflow, hybridVars,
                   pipelineVars, textVars>>

retryJob_resets_all(jobId) ==
    /\ IF jobId \in DOMAIN jobs
       THEN /\ jobs' = [k \in DOMAIN jobs |-> ResetJob(jobs[k])]
            /\ notifications' = <<notifyUpdate(callbacks, ResetJob(jobs[jobId]))>>
            /\ event' = Event("retryJob", jobId, "", TRUE, "")
       ELSE /\ UNCHANGED jobs
            /\ notifications' = << >>
            /\ event' = Event("retryJob", jobId, "", FALSE, "")
    /\ UNCHANGED <<callbacks, unsubscribers, workflow, hybridVars,
                   pipelineVars, textVars>>

\* retryJob(jobId)
retryJob(jobId) ==
    /\ IF jobId \in DOMAIN jobs
       THEN /\ jobs' = [jobs EXCEPT ![jobId] = ResetJob(jobs[jobId])]
            /\ notifications' = <<notifyUpdate(callbacks, ResetJob(jobs[jobId]))>>
            /\ event' = Event("retryJob", jobId, "", TRUE, "")
       ELSE /\ UNCHANGED jobs
            /\ notifications' = << >>
            /\ event' = Event("retryJob", jobId, "", FALSE, "")
    /\ UNCHANGED <<callbacks, unsubscribers, workflow, hybridVars,
                   pipelineVars, textVars>>

\* getJob(jobId): return this.jobs.get(jobId)
getJob(js, jobId) == IF jobId \in DOMAIN js THEN Some(js[jobId]) ELSE Undefined

\* a call of getJob between two handlers; it returns getJob(jobs, jobId)
ReadJob(jobId) ==
    /\ event' = Event("getJob", jobId, "", getJob(jobs, jobId) # Undefined, "")
    /\ notifications' = << >>
    /\ UNCHANGED <<jobs, callbacks, unsubscribers, workflow, hybridVars,
                   pipelineVars, textVars>>

WorkflowNext ==
    \/ \E jobId \in JobIds : ReadJob(jobId)
    \/ \E cb \in CallbackIds : subscribe(cb)
    \/ \E cb \in CallbackIds, again \in BOOLEAN : unsubscribe(cb, again)
    \/ \E jobId \in JobIds : startPDFProcessing(jobId)
    \/ \E jobId \in JobIds : StepStarts(jobId)
    \/ \E jobId \in JobIds : ExecutorResolves(jobId)
    \/ \E jobId \in JobIds : ExecutorRejects(jobId)
    \/ \E jobId \in JobIds : CatchWorkflow(jobId)
    \/ \E jobId \in JobIds : retryJob(jobId)

(***************************************************************************)
(* convertapi-pdf-processor: the HTML helpers                              *)
(*                                                                         *)
(* An HTML string is a sequence of lexical units: each unit is a run of    *)
(* characters that the regular expressions of the helpers treat as a       *)
(* whole.  No unit but GT holds '>', none but IMG holds '<', none but Q is *)
(* or holds a quote, none but WS is white space, none but DATA holds ';'.  *)
(***************************************************************************)
IMG == "<img "
SRC == "src="
Q == "\""
GT == ">"
WS == " "
DATA == "data:image/png;base64,"
HTTP == "http://h/"

\* least k in from..Len(s) with s[k] \in units, 0 when there is none
FirstIn(s, from, units) ==
    LET hits == {k \in from..Len(s) : s[k] \in units}
    IN  IF hits = {} THEN 0 ELSE CHOOSE k \in hits : \A m \in hits : k <= m

\* ["\']([^"\']+)["\'][^>]*> tried at position q of s: the capture and the
\* position of the closing '>', or no match
AttributeValueAt(s, q) ==
    LET close == FirstIn(s, q + 1, {Q})
        gt == IF close = 0 THEN 0 ELSE FirstIn(s, close + 1, {GT})
    IN  IF q > Len(s) \/ s[q] # Q \/ close = 0 \/ close = q + 1 \/ gt = 0
        THEN [found |-> FALSE, value |-> << >>, end |-> 0]
        ELSE [found |-> TRUE, value |-> SubSeq(s, q + 1, close - 1),
              end |-> gt]

\* /<img[^>]+src=["\']([^"\']+)["\'][^>]*>/ tried at position p of s; the
\* greedy [^>]+ takes the last src= of the tag from which the rest matches.
\* With prefix = <<DATA>> the capture has to start with data:image/png;base64,
\* (the tag-scoped pattern of extractBase64Images).
ImgTagAt(s, p, prefix) ==
    LET tagEnd == FirstIn(s, p + 1, {GT})
        srcs == {j \in p + 1..Len(s) :
                    /\ s[j] = SRC
                    /\ tagEnd = 0 \/ j < tagEnd
                    /\ AttributeValueAt(s, j + 1).found
                    /\ Len(AttributeValueAt(s, j + 1).value) > Len(prefix)
                    /\ SubSeq(AttributeValueAt(s, j + 1).value, 1, Len(prefix))
                          = prefix}
    IN  IF p > Len(s) \/ s[p] # IMG \/ srcs = {}
        THEN [found |-> FALSE, value |-> << >>, end |-> 0]
        ELSE AttributeValueAt(s, (CHOOSE j \in srcs : \A m \in srcs : m <= j) + 1)

\* regex.exec(html) of a global regular expression whose lastIndex is from - 1:
\* the leftmost match at or after from
ExecImgTag(s, from, prefix) ==
    LET starts == {p \in from..Len(s) : ImgTagAt(s, p, prefix).found}
    IN  IF starts = {} THEN [found |-> FALSE, value |-> << >>, end |-> 0]
        ELSE ImgTagAt(s, CHOOSE p \in starts : \A m \in starts : p <= m, prefix)

\* url.startsWith('http')
startsWithHttp(url) == Len(url) > 0 /\ url[1] = HTTP

RECURSIVE imgRegexLoop(_, _)
imgRegexLoop(s, from) ==
    LET match == ExecImgTag(s, from, << >>)
    IN  IF ~match.found THEN << >>
        ELSE (IF startsWithHttp(match.value) THEN <<match.value>> ELSE << >>)
                \o imgRegexLoop(s, match.end + 1)

extractImageUrls(html) == imgRegexLoop(html, 1)

\* the characters [^\s"'><]
StandaloneStop == {WS, Q, GT, IMG}

\* /data:image\/([^;]+);base64,([^\s"'><]+)/ : the leftmost match at or
\* after from
ExecStandalone(s, from) ==
    LET starts == {p \in from..Len(s) - 1 :
                      s[p] = DATA /\ s[p + 1] \notin StandaloneStop}
        p == CHOOSE q \in starts : \A m \in starts : q <= m
        hit == FirstIn(s, p + 1, StandaloneStop)
        stop == IF hit = 0 THEN Len(s) + 1 ELSE hit
    IN  IF starts = {} THEN [found |-> FALSE, value |-> << >>, end |-> 0]
        ELSE [found |-> TRUE, value |-> SubSeq(s, p + 1, stop - 1),
              end |-> stop - 1]

\* the matches of one pattern, in order: match[2] (the data) of each
RECURSIVE TagScopedMatches(_, _)
TagScopedMatches(s, from) ==
    LET match == ExecImgTag(s, from, <<DATA>>)
    IN  IF ~match.found THEN << >>
        ELSE <<SubSeq(match.value, 2, Len(match.value))>>
                \o TagScopedMatches(s, match.end + 1)

RECURSIVE StandaloneMatches(_, _)
StandaloneMatches(s, from) ==
    LET match == ExecStandalone(s, from)
    IN  IF ~match.found THEN << >>
        ELSE <<match.value>> \o StandaloneMatches(s, match.end + 1)

\* `data:image/${type};base64,${data}`
DataUrl(data) == <<DATA>> \o data

\* the body of the while loop: push unless foundDataUrls has the data URL
RECURSIVE PushNew(_, _)
PushNew(found, matches) ==
    IF matches = << >> THEN found
    ELSE LET dataUrl == DataUrl(Head(matches))
         IN  PushNew(IF \E k \in 1..Len(found) : found[k].src = dataUrl
                     THEN found
                     ELSE Append(found, [src |-> dataUrl,
                                         data |-> Head(matches),
                                         type |-> "png"]),
                     Tail(matches))

extractBase64Images(html) ==
    PushNew(PushNew(<< >>, TagScopedMatches(html, 1)),
            StandaloneMatches(html, 1))

\* html.replace(new RegExp(escaped, 'g'), replacement) for a literal pattern:
\* every match from left to right, the search going on after each match
RECURSIVE ReplaceAll(_, _, _)
ReplaceAll(s, pattern, replacement) ==
    IF Len(s) < Len(pattern) \/ pattern = << >> THEN s
    ELSE IF SubSeq(s, 1, Len(pattern)) = pattern
    THEN replacement \o ReplaceAll(SubSeq(s, Len(pattern) + 1, Len(s)),
                                   pattern, replacement)
    ELSE <<Head(s)>> \o ReplaceAll(Tail(s), pattern, replacement)

\* replaceImageUrls(html, processedImages)
RECURSIVE replaceImageUrls(_, _)
replaceImageUrls(html, images) ==
    IF images = << >> THEN html
    ELSE replaceImageUrls(ReplaceAll(html, Head(images).originalUrl,
                                     Head(images).supabaseUrl),
                          Tail(images))

\* ---- the inputs ----
\* The HTML documents ConvertAPI returns: up to MaxFragments fragments, each
\* an img tag with an http source, a relative source or a base64 source, a
\* data URL outside a tag, or text that quotes an image URL.
MaxFragments == 2

ImageTag(value) == <<IMG, SRC, Q>> \o value \o <<Q, GT>>

Fragments ==
    { ImageTag(<<HTTP, "a">>),
      ImageTag(<<HTTP, "a", "b">>),
      ImageTag(<<"a">>),
      ImageTag(<<DATA, "a">>),
      ImageTag(<<DATA, "a", WS, "b">>),
      <<DATA, "a", WS>>,
      <<HTTP, "a", WS>> }

RECURSIVE Documents(_)
Documents(n) ==
    IF n = 0 THEN {<< >>}
    ELSE Documents(n - 1) \cup
         {d \o f : d \in Documents(n - 1), f \in Fragments}

\* 5 * 1024 * 1024, the size limit of downloadAndStoreImage
MAX_IMAGE_SIZE == 5 * 1024 * 1024

\* what fetch(imageUrl), response.blob() and the storage upload give for one
\* image: a rejection, or a response with its status, content-type header,
\* body size, and the error of the upload
ContentTypes == {Undefined, Some(<<"image/", "png">>), Some(<<"text/", "html">>)}

DownloadResponses ==
    [rejects : {FALSE}, ok : BOOLEAN, contentType : ContentTypes,
     size : {MAX_IMAGE_SIZE - 1, MAX_IMAGE_SIZE, MAX_IMAGE_SIZE + 1},
     uploadError : BOOLEAN]
    \cup
    {[rejects |-> TRUE, ok |-> FALSE, contentType |-> Undefined,
      size |-> 0, uploadError |-> FALSE]}

\* the text an external service puts into an error message, by the phrases of
\* the categorization the lower-cased text includes
ExternalTexts == {{}, {"storage"}, {"time"}, {"timeout", "time"}}

\* contentType?.startsWith('image/')
startsWithImage(contentType) ==
    contentType # Undefined /\ contentType[1][1] = "image/"

\* supabase.storage.from(bucket).getPublicUrl(storagePath).data.publicUrl, a
\* unit of its own: it holds the bucket and the filename
PublicUrl(bucket, filename) == <<bucket \o "/" \o filename>>

downloadAndStoreImage_size_inclusive(imageUrl, index, r) ==
    IF r.rejects \/ ~r.ok \/ ~startsWithImage(r.contentType)
       \/ r.size >= MAX_IMAGE_SIZE \/ r.uploadError
    THEN Undefined
    ELSE Some([originalUrl |-> imageUrl,
               supabaseUrl |-> PublicUrl("material-images",
                                         "pdf-image-" \o ToString(index + 1)),
               filename |-> "pdf-image-" \o ToString(index + 1),
               size |-> r.size])

\* downloadAndStoreImage(imageUrl, userId, index): null (Undefined) or the
\* ProcessedImage
downloadAndStoreImage(imageUrl, index, r) ==
    IF r.rejects \/ ~r.ok \/ ~startsWithImage(r.contentType)
       \/ r.size > MAX_IMAGE_SIZE \/ r.uploadError
    THEN Undefined
    ELSE Some([originalUrl |-> imageUrl,
               supabaseUrl |-> PublicUrl("material-images",
                                         "pdf-image-" \o ToString(index + 1)),
               filename |-> "pdf-image-" \o ToString(index + 1),
               size |-> r.size])

Base64Outcomes == {"uploaded", "upload-error", "throws"}

\* processBase64Image(base64Data, imageType, userId, index)
processBase64Image(base64Data, index, outcome) ==
    IF outcome # "uploaded" THEN Undefined
    ELSE Some([originalSrc |-> DataUrl(base64Data),
               supabaseUrl |-> PublicUrl("pdf-documents",
                                         "base64-image-" \o ToString(index)),
               filename |-> "base64-image-" \o ToString(index)])

EmbeddingOutcomes == {"no-key", "vector", "not-ok", "rejects"}

generateEmbedding_on_error(outcome) ==
    IF outcome = "no-key" THEN << >> ELSE <<"vector">>

\* generateEmbedding(text): [] without a key and on every error
generateEmbedding(outcome) ==
    IF outcome = "vector" THEN <<"vector">> ELSE << >>

\* the for loop over processedBase64Images of STEP 4
RECURSIVE replaceBase64Images(_, _)
replaceBase64Images(html, images) ==
    IF images = << >> THEN html
    ELSE replaceBase64Images(ReplaceAll(html, Head(images).originalSrc,
                                        Head(images).supabaseUrl),
                             Tail(images))

FinalHtml_blank_without_images(html, images, base64) ==
    IF images = << >> /\ base64 = << >> THEN << >>
    ELSE replaceBase64Images(replaceImageUrls(html, images), base64)

\* let finalHtmlContent of STEP 4
FinalHtml(html, images, base64) ==
    replaceBase64Images(replaceImageUrls(html, images), base64)

\* overall: 0.87, confidence_score_avg: 0.87 and confidence: 0.87, in
\* hundredths as every confidence score is
OVERALL_CONFIDENCE == 87

KnowledgeEntry_miscount(final, emb, urls, images, b64found, b64done) ==
    [content |-> final,
     openai_embedding |-> IF Len(emb) > 0 THEN Some(emb) ELSE Undefined,
     confidence_scores |->
        [conversion |-> 90, text_extraction |-> 85,
         image_processing |-> IF Len(images) > 0 THEN 80 ELSE 0,
         overall |-> OVERALL_CONFIDENCE],
     storage_info |->
        [images_processed |-> Len(urls), images_found |-> Len(urls),
         base64_images_processed |-> Len(b64done),
         base64_images_found |-> Len(b64found)],
     processed_images |->
        [k \in 1..Len(images) |->
            [original_url |-> images[k].originalUrl,
             supabase_url |-> images[k].supabaseUrl,
             filename |-> images[k].filename,
             size |-> images[k].size]]]

\* const knowledgeEntry of STEP 6 (the fields that depend on the run, and the
\* confidence scores)
KnowledgeEntry(final, emb, urls, images, b64found, b64done) ==
    [content |-> final,
     openai_embedding |-> IF Len(emb) > 0 THEN Some(emb) ELSE Undefined,
     confidence_scores |->
        [conversion |-> 90, text_extraction |-> 85,
         image_processing |-> IF Len(images) > 0 THEN 80 ELSE 0,
         overall |-> OVERALL_CONFIDENCE],
     storage_info |->
        [images_processed |-> Len(images), images_found |-> Len(urls),
         base64_images_processed |-> Len(b64done),
         base64_images_found |-> Len(b64found)],
     processed_images |->
        [k \in 1..Len(images) |->
            [original_url |-> images[k].originalUrl,
             supabase_url |-> images[k].supabaseUrl,
             filename |-> images[k].filename,
             size |-> images[k].size]]]

\* ---- the error messages, by the phrases their lower-cased text includes ----
ConvertRequestFailed(text) == {"convertapi request failed"} \cup text
NoHtmlFile == {"no html file"}
FailedToDownloadHtml == {"failed to download html"}
NoHtmlContent == {"no html content found"}
FailedToAddDocument(text) == {"knowledge base"} \cup text
FailedToCreateRecord(text) == {"failed to create processing record"} \cup text

\* the if-chain of the catch (processingError) block
ProcessingErrorCategory(message) ==
    IF "convertapi request failed" \in message THEN "CONVERTAPI_REQUEST_FAILED"
    ELSE IF "no html file" \in message THEN "CONVERSION_FAILED"
    ELSE IF "failed to download html" \in message THEN "DOWNLOAD_FAILED"
    ELSE IF "failed to upload" \in message \/ "storage" \in message
    THEN "STORAGE_ERROR"
    ELSE IF "knowledge base" \in message \/ "database" \in message
    THEN "DATABASE_ERROR"
    ELSE "PROCESSING_ERROR"

\* the if-chain of the outer catch (error) block
TopLevelErrorCategory(message) ==
    IF "convertapi_key" \in message \/ "convertapi key" \in message
    THEN "API_KEY_MISSING"
    ELSE IF "convertapi request failed" \in message
    THEN "CONVERTAPI_REQUEST_FAILED"
    ELSE IF "upload" \in message \/ "storage" \in message THEN "STORAGE_ERROR"
    ELSE IF "embedding" \in message \/ "openai" \in message
    THEN "EMBEDDING_ERROR"
    ELSE IF "knowledge base" \in message \/ "database" \in message
    THEN "DATABASE_ERROR"
    ELSE IF "memory" \in message \/ "limit" \in message THEN "MEMORY_LIMIT"
    ELSE IF "timeout" \in message \/ "time" \in message THEN "TIMEOUT_ERROR"
    ELSE "UNKNOWN_ERROR"

\* troubleshooting, as the catch (processingError) block sets it with the
\* category
ProcessingTroubleshooting(errorCategory) ==
    CASE errorCategory = "CONVERTAPI_REQUEST_FAILED" ->
           << "Verify the PDF file is not corrupted or password-protected",
              "Check if the file size is under 25MB limit",
              "Ensure the PDF contains readable text (not just scanned images)",
              "Try a different PDF file to test the service",
              "Check ConvertAPI account credits and service status" >>
      [] errorCategory = "CONVERSION_FAILED" ->
           << "The PDF may be corrupted or in an unsupported format",
              "Try converting the PDF to a newer format first",
              "Ensure the PDF has actual content (not just images)",
              "Contact support with the problematic PDF file" >>
      [] errorCategory = "DOWNLOAD_FAILED" ->
           << "Check your internet connection stability",
              "Retry the conversion process",
              "ConvertAPI servers may be temporarily unavailable",
              "Contact support if the issue persists" >>
      [] errorCategory = "STORAGE_ERROR" ->
           << "Check your internet connection",
              "Verify Supabase storage buckets exist and are accessible",
              "Check storage quota limits",
              "Retry the upload after a few minutes" >>
      [] errorCategory = "DATABASE_ERROR" ->
           << "Check database connection and permissions",
              "Verify user authentication is valid",
              "Check if the database schema is up to date",
              "Retry the operation after a few minutes" >>
      [] OTHER -> << >>

\* troubleshooting, as the outer catch (error) block sets it with the category
TopLevelTroubleshooting(errorCategory) ==
    CASE errorCategory = "API_KEY_MISSING" ->
           << "Check that CONVERTAPI_KEY is set in Supabase Edge Function secrets",
              "Verify the API key is valid and has sufficient credits",
              "Contact your administrator to configure the API key" >>
      [] errorCategory = "CONVERTAPI_REQUEST_FAILED" ->
           << "Check if the PDF file is valid and not corrupted",
              "Verify the file is not password protected",
              "Try with a smaller PDF file (under 10MB)",
              "Check ConvertAPI service status and credits" >>
      [] errorCategory = "STORAGE_ERROR" ->
           << "Check your internet connection",
              "Verify Supabase storage buckets are properly configured",
              "Try uploading a smaller file",
              "Check if you have sufficient storage quota" >>
      [] errorCategory = "EMBEDDING_ERROR" ->
           << "Check OpenAI API key configuration",
              "Verify OpenAI API quota and billing",
              "Try processing a smaller document",
              "Check if the extracted text is valid" >>
      [] errorCategory = "DATABASE_ERROR" ->
           << "Check database connection",
              "Verify user permissions",
              "Check if the document data is valid",
              "Try processing again after a few minutes" >>
      [] errorCategory = "MEMORY_LIMIT" ->
           << "Try processing a smaller PDF file (under 5MB)",
              "Split large documents into smaller sections",
              "Reduce the page range for processing",
              "Contact support for processing large documents" >>
      [] errorCategory = "TIMEOUT_ERROR" ->
           << "Try processing a simpler PDF document",
              "Reduce the number of pages to process",
              "Retry the operation",
              "Contact support for complex documents" >>
      [] OTHER -> << >>

\* ---- the serve handler ----
Start(stage) == [stage |-> stage, event |-> "start"]
End(stage) == [stage |-> stage, event |-> "end"]

PipelineEvent(op, input, result) ==
    [op |-> op, input |-> input, result |-> result]

\* new Response(JSON.stringify(body), { status })
Response(status, success, errorCategory, context) ==
    [status |-> status, success |-> success,
     errorCategory |-> errorCategory, context |-> context,
     troubleshooting |-> Undefined, knowledgeEntryId |-> Undefined,
     confidence |-> Undefined]

\* the body of a failure response of the two catch blocks
FailureBody(errorCategory, troubleshooting, context) ==
    [Response(500, Some(FALSE), Some(errorCategory), context)
        EXCEPT !.troubleshooting = Some(troubleshooting)]

\* the body of the success response; knowledgeData.id is the position of the
\* row in enhanced_knowledge_base
SuccessBody(knowledgeEntryId) ==
    [Response(200, Some(TRUE), Undefined, "success")
        EXCEPT !.knowledgeEntryId = Some(knowledgeEntryId),
               !.confidence = Some(OVERALL_CONFIDENCE)]

PipelineInit ==
    /\ ppc = "idle"
    /\ htmlFile = Undefined
    /\ htmlContent = << >>
    /\ imageUrls = << >>
    /\ base64Images = << >>
    /\ loopIndex = 0
    /\ processedImages = << >>
    /\ processedBase64Images = << >>
    /\ finalHtmlContent = Undefined
    /\ knowledgeEntry = Undefined
    /\ thrown = Undefined
    /\ processingRecord = Undefined
    /\ enhanced_knowledge_base = << >>
    /\ httpResponse = Undefined
    /\ stages = << >>
    /\ warnings = {}
    /\ pevent = PipelineEvent("new", Undefined, Undefined)

Throws_swallowed(message) ==
    /\ thrown' = Some(message)
    /\ ppc' = "job-update"
    /\ UNCHANGED <<localVars, storeVars, httpResponse, stages>>

\* a throw inside the inner try: the catch (processingError) block runs up to
\* its await of the update of the processing record
Throws(message) ==
    /\ thrown' = Some(message)
    /\ ppc' = "failed-update"
    /\ UNCHANGED <<localVars, storeVars, httpResponse, stages>>

\* serve(async (req) => ...) up to the insert of the processing record
serve(hasConvertApiKey, hasRequiredFields) ==
    /\ ppc = "idle"
    /\ IF ~hasConvertApiKey
       THEN /\ httpResponse' = Some(Response(500, Undefined, Undefined,
                                             "ConvertAPI key not configured"))
            /\ ppc' = "responded"
       ELSE IF ~hasRequiredFields
       THEN /\ httpResponse' = Some(Response(400, Undefined, Undefined,
                                             "Missing required fields"))
            /\ ppc' = "responded"
       ELSE /\ ppc' = "create-record"
            /\ UNCHANGED httpResponse
    /\ pevent' = PipelineEvent("serve", <<hasConvertApiKey, hasRequiredFields>>,
                               Undefined)
    /\ UNCHANGED <<localVars, storeVars, thrown, stages, warnings, hybridVars,
                   workflowVars, textVars>>

\* the insert into pdf_processing_results settles; createError is thrown to
\* the outer catch, otherwise STEP 1 calls ConvertAPI
RecordInsertSettles(createError, text) ==
    /\ ppc = "create-record"
    /\ IF createError
       THEN /\ LET errorCategory ==
                        TopLevelErrorCategory(FailedToCreateRecord(text))
                 IN  httpResponse' =
                        Some(FailureBody(errorCategory,
                                TopLevelTroubleshooting(errorCategory),
                                "convertapi_initialization_error"))
            /\ ppc' = "responded"
            /\ UNCHANGED <<processingRecord, stages>>
       ELSE /\ processingRecord' = Some([processing_status |-> "processing",
                                         error_message |-> Undefined])
            /\ stages' = <<Start("convert")>>
            /\ ppc' = "convert"
            /\ UNCHANGED httpResponse
    /\ pevent' = PipelineEvent("insert", "pdf_processing_results", ~createError)
    /\ UNCHANGED <<localVars, enhanced_knowledge_base, thrown, warnings,
                   hybridVars, workflowVars, textVars>>

\* STEP 3 up to its first await, once htmlContent is known: discovery, then
\* the first image, or STEP 4 up to the upload of the final HTML
AfterExtraction(html, before) ==
    LET urls == extractImageUrls(html)
        base64 == extractBase64Images(html)
        discovered == before \o <<End("extract-html"), Start("discover-images"),
                                  End("discover-images"),
                                  Start("relocate-images")>>
    IN  /\ htmlFile' = Undefined
        /\ htmlContent' = html
        /\ imageUrls' = urls
        /\ base64Images' = base64
        /\ loopIndex' = 0
        /\ processedImages' = << >>
        /\ processedBase64Images' = << >>
        /\ UNCHANGED knowledgeEntry
        /\ IF urls # << >>
           THEN /\ ppc' = "image-download"
                /\ stages' = discovered
                /\ UNCHANGED finalHtmlContent
           ELSE IF base64 # << >>
           THEN /\ ppc' = "base64-upload"
                /\ stages' = discovered
                /\ UNCHANGED finalHtmlContent
           ELSE /\ ppc' = "html-upload"
                /\ stages' = discovered \o <<End("relocate-images"),
                                             Start("finalize-html")>>
                /\ finalHtmlContent' = Some(FinalHtml(html, << >>, << >>))

ConvertFailures == {"rejects", "not-ok", "no-files", "no-html-file",
                    "no-content"}

ConvertError(outcome, text) ==
    CASE outcome = "not-ok" -> ConvertRequestFailed(text)
      [] outcome = "no-files" -> NoHtmlFile
      [] outcome = "no-html-file" -> NoHtmlFile
      [] outcome = "no-content" -> NoHtmlContent
      [] OTHER -> text

\* the ConvertAPI call of STEP 1 fails, or gives no HTML file, or gives an
\* HTML file without Url and FileData
ConvertFails(outcome, text) ==
    /\ ppc = "convert"
    /\ Throws(ConvertError(outcome, text))
    /\ pevent' = PipelineEvent("convert", outcome, FALSE)
    /\ UNCHANGED <<warnings, hybridVars, workflowVars, textVars>>

\* htmlFile.FileData as the handler sees it: the string (raw), whether the
\* string without its whitespace matches /^[A-Za-z0-9+/]*={0,2}$/ (alphabet),
\* and what atob gives for it, << >> when atob throws
FileData(raw, alphabet, decoded) ==
    [raw |-> raw, alphabet |-> alphabet, atob |-> decoded]

\* the HTML as it is: every fragment holds '<', ':' or both, which the
\* alphabet does not
PlainFileData(doc) == FileData(doc, FALSE, Undefined)

\* the base64 encoding of the HTML, one unit of text
EncodedFileData(doc) ==
    FileData(<<"btoa(" \o ToString(doc) \o ")">>, TRUE, Some(doc))

\* a word of four letters is in the alphabet and decodes to three bytes that
\* are no HTML; a word of five letters is in the alphabet and atob throws
FourLetterWord == FileData(<<"abcd">>, TRUE, Some(<<"atob(abcd)">>))
FiveLetterWord == FileData(<<"abcde">>, TRUE, Undefined)

\* the truthy values of htmlFile.FileData ('' is falsy and leaves the file
\* without content)
FileDatas ==
    {PlainFileData(doc) : doc \in Documents(MaxFragments) \ {<< >>}}
    \cup {EncodedFileData(doc) : doc \in Documents(MaxFragments)}
    \cup {FourLetterWord, FiveLetterWord}

\* the FileData branch of STEP 2: atob(rawData) when the test of the alphabet
\* matches, rawData when it does not or when atob throws
DecodeFileData(fileData) ==
    IF fileData.alphabet
    THEN IF fileData.atob # Undefined
         THEN fileData.atob[1]
         ELSE fileData.raw
    ELSE fileData.raw

\* the HTML files that carry a URL: with and without a truthy FileData
\* beside it
HtmlFile(hasUrl, hasFileData) == [Url |-> hasUrl, FileData |-> hasFileData]

\* the ConvertAPI call of STEP 1 gives an HTML file with a URL: STEP 2
\* fetches it
ConvertReturnsUrl(hasFileData) ==
    /\ ppc = "convert"
    /\ ppc' = "download-html"
    /\ htmlFile' = Some(HtmlFile(TRUE, hasFileData))
    /\ stages' = stages \o <<End("convert"), Start("extract-html")>>
    /\ pevent' = PipelineEvent("convert", "url", TRUE)
    /\ UNCHANGED <<htmlContent, imageUrls, base64Images, loopIndex,
                   processedImages, processedBase64Images, finalHtmlContent,
                   knowledgeEntry, storeVars, thrown, httpResponse, warnings,
                   hybridVars, workflowVars, textVars>>

\* the ConvertAPI call of STEP 1 gives an HTML file with FileData only
ConvertReturnsFileData(fileData) ==
    /\ ppc = "convert"
    /\ AfterExtraction(DecodeFileData(fileData),
                       stages \o <<End("convert"), Start("extract-html")>>)
    /\ pevent' = PipelineEvent("convert", "file-data", TRUE)
    /\ UNCHANGED <<storeVars, thrown, httpResponse, warnings, hybridVars,
                   workflowVars, textVars>>

\* the fetch of the HTML file settles; a response that is not ok throws,
\* whatever else htmlFile carries
HtmlDownloadSettles(ok, html) ==
    /\ ppc = "download-html"
    /\ IF ok
       THEN /\ AfterExtraction(html, stages)
            /\ UNCHANGED <<storeVars, thrown, httpResponse>>
       ELSE Throws(FailedToDownloadHtml)
    /\ pevent' = PipelineEvent("fetch", "html", ok)
    /\ UNCHANGED <<warnings, hybridVars, workflowVars, textVars>>

\* the end of the two loops of STEP 3: STEP 4 up to the upload of the HTML
RelocationEnds(images, base64) ==
    /\ ppc' = "html-upload"
    /\ loopIndex' = 0
    /\ finalHtmlContent' = Some(FinalHtml(htmlContent, images, base64))
    /\ stages' = stages \o <<End("relocate-images"), Start("finalize-html")>>

\* one turn of the loop over imageUrls: downloadAndStoreImage settles
ImageDownloadSettles(r) ==
    /\ ppc = "image-download"
    /\ LET processedImage ==
               downloadAndStoreImage(imageUrls[loopIndex + 1], loopIndex, r)
           images == processedImages \o processedImage
       IN  /\ processedImages' = images
           /\ pevent' = PipelineEvent("downloadAndStoreImage", r,
                                      processedImage)
           /\ IF loopIndex + 1 < Len(imageUrls)
              THEN /\ loopIndex' = loopIndex + 1
                   /\ UNCHANGED <<ppc, finalHtmlContent, stages>>
              ELSE IF base64Images # << >>
              THEN /\ loopIndex' = 0
                   /\ ppc' = "base64-upload"
                   /\ UNCHANGED <<finalHtmlContent, stages>>
              ELSE RelocationEnds(images, processedBase64Images)
    /\ warnings' = IF downloadAndStoreImage(imageUrls[loopIndex + 1], loopIndex,
                                            r) = Undefined
                   THEN warnings \cup {"image skipped"} ELSE warnings
    /\ UNCHANGED <<htmlFile, htmlContent, imageUrls, base64Images,
                   processedBase64Images, knowledgeEntry, storeVars, thrown,
                   httpResponse, hybridVars, workflowVars, textVars>>

\* one turn of the loop over base64Images: processBase64Image settles
Base64ImageSettles(outcome) ==
    /\ ppc = "base64-upload"
    /\ LET processedBase64 ==
               processBase64Image(base64Images[loopIndex + 1].data, loopIndex,
                                  outcome)
           base64 == processedBase64Images \o processedBase64
       IN  /\ processedBase64Images' = base64
           /\ pevent' = PipelineEvent("processBase64Image", outcome,
                                      processedBase64)
           /\ IF loopIndex + 1 < Len(base64Images)
              THEN /\ loopIndex' = loopIndex + 1
                   /\ UNCHANGED <<ppc, finalHtmlContent, stages>>
              ELSE RelocationEnds(processedImages, base64)
    /\ warnings' = IF outcome # "uploaded"
                   THEN warnings \cup {"base64 image skipped"} ELSE warnings
    /\ UNCHANGED <<htmlFile, htmlContent, imageUrls, base64Images,
                   processedImages, knowledgeEntry, storeVars, thrown,
                   httpResponse, hybridVars, workflowVars, textVars>>

\* the upload of the final HTML settles (an error is only logged); STEP 5
\* extracts the text and calls generateEmbedding
HtmlUploadSettles(htmlUploadError) ==
    /\ ppc = "html-upload"
    /\ ppc' = "embedding"
    /\ stages' = stages \o <<End("finalize-html"), Start("extract-text"),
                              End("extract-text"),
                              Start("generate-embedding")>>
    /\ pevent' = PipelineEvent("upload", "html", ~htmlUploadError)
    /\ warnings' = IF htmlUploadError
                   THEN warnings \cup {"Failed to upload HTML to storage"}
                   ELSE warnings
    /\ UNCHANGED <<localVars, storeVars, thrown, httpResponse, hybridVars,
                   workflowVars, textVars>>

\* generateEmbedding settles; STEP 6 builds the entry and inserts it
EmbeddingSettles(outcome) ==
    /\ ppc = "embedding"
    /\ ppc' = "knowledge-insert"
    /\ knowledgeEntry' =
          Some(KnowledgeEntry(finalHtmlContent[1], generateEmbedding(outcome),
                              imageUrls, processedImages, base64Images,
                              processedBase64Images))
    /\ stages' = stages \o <<End("generate-embedding"),
                              Start("store-knowledge")>>
    /\ pevent' = PipelineEvent("generateEmbedding", outcome,
                               generateEmbedding(outcome))
    /\ warnings' = CASE outcome = "vector" -> warnings
                     [] outcome = "no-key" ->
                           warnings \cup {"OpenAI API key not found"}
                     [] OTHER -> warnings \cup {"Error generating embedding"}
    /\ UNCHANGED <<htmlFile, htmlContent, imageUrls, base64Images, loopIndex,
                   processedImages, processedBase64Images, finalHtmlContent,
                   storeVars, thrown, httpResponse, hybridVars, workflowVars, textVars>>

KnowledgeInsertSettles_twice(knowledgeError, text) ==
    /\ ppc = "knowledge-insert"
    /\ IF knowledgeError
       THEN Throws(FailedToAddDocument(text))
       ELSE /\ enhanced_knowledge_base' =
                  enhanced_knowledge_base
                     \o <<knowledgeEntry[1], knowledgeEntry[1]>>
            /\ ppc' = "job-update"
            /\ stages' = stages \o <<End("store-knowledge"),
                                      Start("finalize-job")>>
            /\ UNCHANGED <<localVars, processingRecord, thrown, httpResponse>>
    /\ pevent' = PipelineEvent("insert", "enhanced_knowledge_base",
                               ~knowledgeError)
    /\ UNCHANGED <<warnings, hybridVars, workflowVars, textVars>>

\* the insert into enhanced_knowledge_base settles; STEP 7 updates the
\* processing record
KnowledgeInsertSettles(knowledgeError, text) ==
    /\ ppc = "knowledge-insert"
    /\ IF knowledgeError
       THEN Throws(FailedToAddDocument(text))
       ELSE /\ enhanced_knowledge_base' =
                  Append(enhanced_knowledge_base, knowledgeEntry[1])
            /\ ppc' = "job-update"
            /\ stages' = stages \o <<End("store-knowledge"),
                                      Start("finalize-job")>>
            /\ UNCHANGED <<localVars, processingRecord, thrown, httpResponse>>
    /\ pevent' = PipelineEvent("insert", "enhanced_knowledge_base",
                               ~knowledgeError)
    /\ UNCHANGED <<warnings, hybridVars, workflowVars, textVars>>

UpdateRecord_deletes(record, applied, status, message) ==
    IF applied /\ record # Undefined /\ status = "failed"
    THEN Undefined
    ELSE IF applied /\ record # Undefined
    THEN Some([processing_status |-> status, error_message |-> message])
    ELSE record

\* what an update of the processing record leaves in the table: the database
\* applies it or reports an error, which the handler does not read
UpdateRecord(record, applied, status, message) ==
    IF applied /\ record # Undefined
    THEN Some([processing_status |-> status, error_message |-> message])
    ELSE record

\* the update of STEP 7 settles and the success response is returned
JobUpdateSettles(applied) ==
    /\ ppc = "job-update"
    /\ processingRecord' =
          UpdateRecord(processingRecord, applied, "completed", Undefined)
    /\ httpResponse' = Some(SuccessBody(Len(enhanced_knowledge_base)))
    /\ stages' = stages \o <<End("finalize-job")>>
    /\ ppc' = "responded"
    /\ pevent' = PipelineEvent("update", "completed", applied)
    /\ UNCHANGED <<localVars, enhanced_knowledge_base, thrown, warnings,
                   hybridVars, workflowVars, textVars>>

\* the update of the catch (processingError) block settles and the failure
\* response is returned
FailedUpdateSettles(applied) ==
    /\ ppc = "failed-update"
    /\ LET errorCategory == ProcessingErrorCategory(thrown[1])
       IN  /\ processingRecord' =
                 UpdateRecord(processingRecord, applied, "failed",
                              Some(errorCategory))
           /\ httpResponse' =
                 Some(FailureBody(errorCategory,
                                  ProcessingTroubleshooting(errorCategory),
                                  "convertapi_processing_step"))
    /\ ppc' = "responded"
    /\ pevent' = PipelineEvent("update", "failed", applied)
    /\ UNCHANGED <<localVars, enhanced_knowledge_base, thrown, stages,
                   warnings, hybridVars, workflowVars, textVars>>

PipelineNext ==
    \/ \E key \in BOOLEAN, fields \in BOOLEAN : serve(key, fields)
    \/ \E createError \in BOOLEAN, text \in ExternalTexts :
          RecordInsertSettles(createError, text)
    \/ \E outcome \in ConvertFailures, text \in ExternalTexts :
          ConvertFails(outcome, text)
    \/ \E hasFileData \in BOOLEAN : ConvertReturnsUrl(hasFileData)
    \/ \E fileData \in FileDatas : ConvertReturnsFileData(fileData)
    \/ \E ok \in BOOLEAN, html \in Documents(MaxFragments) :
          HtmlDownloadSettles(ok, html)
    \/ \E r \in DownloadResponses : ImageDownloadSettles(r)
    \/ \E outcome \in Base64Outcomes : Base64ImageSettles(outcome)
    \/ \E htmlUploadError \in BOOLEAN : HtmlUploadSettles(htmlUploadError)
    \/ \E outcome \in EmbeddingOutcomes : EmbeddingSettles(outcome)
    \/ \E knowledgeError \in BOOLEAN, text \in ExternalTexts :
          KnowledgeInsertSettles(knowledgeError, text)
    \/ \E applied \in BOOLEAN : JobUpdateSettles(applied)
    \/ \E applied \in BOOLEAN : FailedUpdateSettles(applied)

(***************************************************************************)
(* The texts of STEP 5 and STEP 6.  A string is held run-length encoded, a *)
(* sequence of runs [c, n] that stands for n copies of c one after the     *)
(* other, so that texts as long as the limits of the handler (8000, 4000   *)
(* and 1024 * 1024 characters) are values of the model.  The documents     *)
(* drawn here hold tags, words and white space; none holds a script or     *)
(* style element or an entity, which extractTextFromHTML would also        *)
(* rewrite.                                                                *)
(***************************************************************************)
Run(c, n) == [c |-> c, n |-> n]

TRUNCATION_MARKER == "\n<!-- Content truncated due to size -->"
MarkerLength == 39

\* the number of UTF-16 units c stands for
Width(c) == IF c = TRUNCATION_MARKER THEN MarkerLength ELSE 1

\* text.length
RECURSIVE Length(_)
Length(text) ==
    IF text = << >> THEN 0
    ELSE Head(text).n * Width(Head(text).c) + Length(Tail(text))

\* text.substring(0, end), of a text of single characters
RECURSIVE Substring(_, _)
Substring(text, end) ==
    IF text = << >> \/ end <= 0 THEN << >>
    ELSE IF Head(text).n >= end THEN <<Run(Head(text).c, end)>>
    ELSE <<Head(text)>> \o Substring(Tail(text), end - Head(text).n)

\* text.replace(/<[^>]+>/g, ' '): from position p on; '<' and '>' stand in
\* runs of one
FirstGt(text, p) ==
    IF \E k \in p..Len(text) : text[k].c = ">"
    THEN CHOOSE k \in p..Len(text) :
            text[k].c = ">" /\ \A j \in p..(k - 1) : text[j].c # ">"
    ELSE 0

RECURSIVE StripTags(_, _)
StripTags(text, p) ==
    IF p > Len(text) THEN << >>
    ELSE LET close == FirstGt(text, p + 1)
         IN  IF text[p].c = "<" /\ close > p + 1
             THEN <<Run(" ", 1)>> \o StripTags(text, close + 1)
             ELSE <<text[p]>> \o StripTags(text, p + 1)

\* text.replace(/\s+/g, ' ')
RECURSIVE CollapseWhitespace(_)
CollapseWhitespace(text) ==
    IF text = << >> THEN << >>
    ELSE IF Head(text).c # " "
    THEN <<Head(text)>> \o CollapseWhitespace(Tail(text))
    ELSE IF Len(text) > 1 /\ text[2].c = " "
    THEN CollapseWhitespace(Tail(text))
    ELSE <<Run(" ", 1)>> \o CollapseWhitespace(Tail(text))

\* text.trim(), of a text whose white space is collapsed
Trim(text) ==
    LET first == IF text # << >> /\ text[1].c = " " THEN 2 ELSE 1
        last == IF text # << >> /\ text[Len(text)].c = " "
                THEN Len(text) - 1 ELSE Len(text)
    IN  SubSeq(text, first, last)

\* the text before the final substring
CleanedText(html) == Trim(CollapseWhitespace(StripTags(html, 1)))

MAX_TEXT_LENGTH == 8000
MAX_EMBEDDING_INPUT == 4000

\* function extractTextFromHTML(html: string): string
extractTextFromHTML(html) == Substring(CleanedText(html), MAX_TEXT_LENGTH)

\* const limitedText = text.substring(0, 4000)
limitedText(text) == Substring(text, MAX_EMBEDDING_INPUT)

\* the body generateEmbedding posts to the embeddings endpoint, if it posts
EmbeddingInput(text, hasOpenAiKey) ==
    IF ~hasOpenAiKey THEN Undefined ELSE Some(limitedText(text))

\* const maxContentSize = 1024 * 1024
maxContentSize == 1024 * 1024

contentToStore_inclusive(final) ==
    IF Length(final) >= maxContentSize
    THEN Substring(final, maxContentSize) \o <<Run(TRUNCATION_MARKER, 1)>>
    ELSE final

\* let contentToStore = finalHtmlContent; if (... > maxContentSize) ...
contentToStore(final) ==
    IF Length(final) > maxContentSize
    THEN Substring(final, maxContentSize) \o <<Run(TRUNCATION_MARKER, 1)>>
    ELSE final

\* ---- the documents the text stages are applied to ----
\* <p> x..x </p>, with or without the tags, followed by nothing, by a blank,
\* or by two blanks and a second word; the length of the first word is taken
\* around each of the three limits
OpenTag == <<Run("<", 1), Run("p", 1), Run(">", 1)>>
CloseTag == <<Run("<", 1), Run("/", 1), Run("p", 1), Run(">", 1)>>

WordPad == 2
Around(limit, below, above) ==
    {limit + d - below : d \in 0..(below + above)}

WordLengths ==
    {1}
    \cup Around(MAX_EMBEDDING_INPUT, WordPad, WordPad)
    \cup Around(MAX_TEXT_LENGTH, WordPad, WordPad)
    \cup Around(maxContentSize, Len(OpenTag) + Len(CloseTag) + WordPad,
                WordPad)

Tails == {<< >>, <<Run(" ", 1)>>, <<Run(" ", 2), Run("y", 1)>>}

HtmlTexts ==
    {<<Run("x", n)>> \o tail : n \in WordLengths, tail \in Tails}
    \cup {OpenTag \o <<Run("x", n)>> \o CloseTag \o tail :
             n \in WordLengths, tail \in Tails}

TextCall(op, input, output) == [op |-> op, input |-> input, output |-> output]

TextInit == textCall = TextCall("new", << >>, << >>)

\* STEP 5: const extractedText = extractTextFromHTML(finalHtmlContent)
ExtractText(html) ==
    /\ textCall' = TextCall("extractTextFromHTML", html,
                            extractTextFromHTML(html))
    /\ UNCHANGED <<hybridVars, workflowVars, pipelineVars>>

\* STEP 5: await generateEmbedding(extractedText), up to the fetch
PostEmbedding(html, hasOpenAiKey) ==
    /\ textCall' = TextCall("generateEmbedding", extractTextFromHTML(html),
                            EmbeddingInput(extractTextFromHTML(html),
                                           hasOpenAiKey))
    /\ UNCHANGED <<hybridVars, workflowVars, pipelineVars>>

\* STEP 6: the content of the knowledge entry
StoreContent(html) ==
    /\ textCall' = TextCall("contentToStore", html, contentToStore(html))
    /\ UNCHANGED <<hybridVars, workflowVars, pipelineVars>>

TextNext ==
    \/ \E html \in HtmlTexts : ExtractText(html)
    \/ \E html \in HtmlTexts, key \in BOOLEAN : PostEmbedding(html, key)
    \/ \E html \in HtmlTexts : StoreContent(html)

\* ---- the specifications ----
InitHybrid == HybridInit(ProviderTables) /\ WorkflowInit /\ PipelineInit
              /\ TextInit
SpecHybrid == InitHybrid /\ [][HybridNext]_vars

InitWorkflow == HybridInit({PROVIDERS}) /\ WorkflowInit /\ PipelineInit
              /\ TextInit
SpecWorkflow == InitWorkflow /\ [][WorkflowNext]_vars

\* two jobs in flight in one PDFWorkflowService: two startPDFProcessing calls
\* with the ids they drew, the two executeWorkflow runs, and the retryJob
\* calls of the callers, which the event loop runs while a run awaits its
\* executor or after it has ended
TwoJobIds == {"job-1", "job-2"}

RetryAtAwait(jobId) ==
    /\ jobId \in DOMAIN workflow
    /\ workflow[jobId].pc \in {"await", "ended"}
    /\ retryJob(jobId)

TwoJobsNext ==
    \/ \E jobId \in TwoJobIds : startPDFProcessing(jobId)
    \/ \E jobId \in TwoJobIds : StepStarts(jobId)
    \/ \E jobId \in TwoJobIds : ExecutorResolves(jobId)
    \/ \E jobId \in TwoJobIds : ExecutorRejects(jobId)
    \/ \E jobId \in TwoJobIds : CatchWorkflow(jobId)
    \/ \E jobId \in TwoJobIds : RetryAtAwait(jobId)

SpecTwoJobs == InitWorkflow /\ [][TwoJobsNext]_vars

\* executeWorkflow is one async function on the single-threaded event loop:
\* the continuation after a settled await always runs (the next executeStep
\* call, the catch block), and every executor's promise is taken to settle
ExecutorSettles ==
    \E jobId \in JobIds : ExecutorResolves(jobId) \/ ExecutorRejects(jobId)

WorkflowContinues ==
    \E jobId \in JobIds : StepStarts(jobId) \/ CatchWorkflow(jobId)

\* the operations that act on jobs: the run of a job and the retryJob calls
\* (the callbacks and the getJob calls have no part in how a run goes on)
RunNext ==
    \/ \E jobId \in JobIds : startPDFProcessing(jobId)
    \/ \E jobId \in JobIds : StepStarts(jobId)
    \/ \E jobId \in JobIds : ExecutorResolves(jobId)
    \/ \E jobId \in JobIds : ExecutorRejects(jobId)
    \/ \E jobId \in JobIds : CatchWorkflow(jobId)
    \/ \E jobId \in JobIds : retryJob(jobId)

SpecWorkflowFair ==
    /\ InitWorkflow
    /\ [][RunNext]_vars
    /\ WF_vars(ExecutorSettles)
    /\ WF_vars(WorkflowContinues)

InitPipeline == HybridInit({PROVIDERS}) /\ WorkflowInit /\ PipelineInit
              /\ TextInit
SpecPipeline == InitPipeline /\ [][PipelineNext]_vars

InitText == HybridInit({PROVIDERS}) /\ WorkflowInit /\ PipelineInit
            /\ TextInit
SpecText == InitText /\ [][TextNext]_vars

(***************************************************************************)
(* Properties of the dispatcher                                            *)
(***************************************************************************)
Successful(att) == {i \in 1..Len(att) : att[i].success}
ScoreOf(a) == a.score[1]
Entry(name) ==
    providers[CHOOSE i \in 1..Len(providers) : providers[i].name = name]

RECURSIVE MaxScore(_, _)
MaxScore(att, S) ==
    IF S = {} THEN 0
    ELSE LET i == CHOOSE k \in S : TRUE
             m == MaxScore(att, S \ {i})
         IN  IF ScoreOf(att[i]) > m THEN ScoreOf(att[i]) ELSE m

\* the first successful attempt that carries the highest score
BestAttempt(att) ==
    LET S == Successful(att)
        top == {i \in S : ScoreOf(att[i]) = MaxScore(att, S)}
    IN  CHOOSE i \in top : \A k \in top : i <= k

\* C1: once an attempt is recorded whose score is >= minimumScore it is the
\* last attempt: the loop has been left, no later provider is invoked, and the
\* response carries exactly the attempts made.  With the first provider in
\* priority order scoring >= minimumScore the returned list has that one entry.
C1_EarlyExit ==
    /\ Len(calls) = Len(attempts)
    /\ \A i \in Successful(attempts) :
          ScoreOf(attempts[i]) >= minimumScore
             => i = Len(attempts) /\ hpc \in {"return", "done"}
    /\ hpc = "done" => response[1].attempts = attempts
    /\ ( /\ hpc = "done"
         /\ Len(calls) >= 1
         /\ ~calls[1].threw
         /\ validateResponse(calls[1].result).score >= minimumScore )
       => /\ Len(response[1].attempts) = 1
          /\ \A k \in 1..Len(providers) :
                providers[k].available
                  => Entry(response[1].attempts[1].provider).priority
                        <= providers[k].priority

C1_Witness ==
    /\ hpc = "done"
    /\ \A k \in 1..Len(providers) : providers[k].available
    /\ maxRetries >= 2
    /\ Len(response[1].attempts) = 1
    /\ response[1].attempts[1].success
    /\ ScoreOf(response[1].attempts[1]) >= minimumScore
    /\ Len(calls) = 1

\* C2: the attempt list never holds more than maxRetries entries; with
\* maxRetries = 1 and the first provider throwing, the list holds exactly that
\* one failed attempt and the response is a failure.
C2_RetryBudget ==
    /\ hpc # "idle" => Len(attempts) <= maxRetries /\ Len(calls) <= maxRetries
    /\ hpc = "done" => Len(response[1].attempts) <= maxRetries
    /\ ( /\ hpc = "done"
         /\ maxRetries = 1
         /\ Len(calls) >= 1
         /\ calls[1].threw )
       => /\ Len(response[1].attempts) = 1
          /\ ~response[1].attempts[1].success
          /\ ~response[1].success

C2_Witness ==
    /\ hpc = "done"
    /\ maxRetries = 1
    /\ \A k \in 1..Len(providers) : providers[k].available
    /\ Len(response[1].attempts) = 1
    /\ ~response[1].attempts[1].success
    /\ ~response[1].success

\* C3 (the claim as stated): when several attempts succeed and none reaches
\* minimumScore, the response's data, provider and final_score are those of the
\* highest-scoring successful attempt.  Stated for the table of the source.
C3_BestOfClaim ==
    ( /\ providers = PROVIDERS
      /\ hpc = "done"
      /\ Cardinality(Successful(attempts)) >= 2
      /\ \A i \in Successful(attempts) : ScoreOf(attempts[i]) < minimumScore )
    => LET b == BestAttempt(attempts)
       IN  /\ response[1].final_score = ScoreOf(attempts[b])
           /\ response[1].provider = attempts[b].provider
           /\ response[1].data = calls[b].result

\* C4 (the claim as stated): if the attempt list holds a successful entry the
\* response has success = true and carries the best-scoring result, its
\* provider name and the full attempt list.  Stated for the table of the source.
C4_SuccessOutcomeClaim ==
    ( /\ providers = PROVIDERS
      /\ hpc = "done"
      /\ Successful(attempts) # {} )
    => LET b == BestAttempt(attempts)
       IN  /\ response[1].success
           /\ response[1].data = calls[b].result
           /\ response[1].provider = attempts[b].provider
           /\ response[1].attempts = attempts

\* C5: processRequest never raises; when every attempted provider throws, the
\* response is success = false, final_score 0, provider 'none', data null, and
\* the attempt list has one failed entry with an error message per provider
\* attempted.
C5_FailureIsTyped ==
    /\ hpc # "raised"
    /\ ( /\ hpc = "done"
         /\ \A i \in 1..Len(calls) : calls[i].threw )
       => /\ ~response[1].success
          /\ response[1].final_score = 0
          /\ response[1].provider = "none"
          /\ response[1].data = jsNull
          /\ Len(response[1].attempts) = Len(calls)
          /\ \A i \in 1..Len(calls) :
                /\ response[1].attempts[i].provider = calls[i].provider
                /\ ~response[1].attempts[i].success
                /\ response[1].attempts[i].error # Undefined
                /\ response[1].attempts[i].error[1] \in ErrorMessages

C5_Witness ==
    /\ hpc = "done"
    /\ Len(calls) = 2
    /\ \A i \in 1..Len(calls) : calls[i].threw
    /\ ~response[1].success
    /\ Len(response[1].attempts) = 2

\* C6: the attempt list is in strictly ascending provider priority, names only
\* available providers, names each at most once, and is the start of the
\* priority order whatever the earlier attempts produced.
C6_AttemptOrder ==
    /\ \A i \in 1..Len(attempts) : Entry(attempts[i].provider).available
    /\ \A i, j \in 1..Len(attempts) :
          i < j => /\ Entry(attempts[i].provider).priority
                        < Entry(attempts[j].provider).priority
                   /\ attempts[i].provider # attempts[j].provider
    /\ \A i \in 1..Len(attempts) :
          Cardinality({k \in 1..Len(providers) :
                          /\ providers[k].available
                          /\ providers[k].priority
                               < Entry(attempts[i].provider).priority}) = i - 1
    /\ hpc = "done" => response[1].attempts = attempts

C6_Witness ==
    /\ hpc = "done"
    /\ Len(response[1].attempts) = 2
    /\ providers[1].priority > providers[2].priority
    /\ ~response[1].attempts[1].success
    /\ response[1].attempts[2].success

(***************************************************************************)
(* Properties of the workflow service                                      *)
(***************************************************************************)
StepStatuses(job) == {job.steps[i].status : i \in 1..Len(job.steps)}

\* the function of the step statuses the specification gives for the status
StatusOfSteps(job) ==
    IF "failed" \in StepStatuses(job) THEN "failed"
    ELSE IF StepStatuses(job) = {"completed"} THEN "completed"
    ELSE IF "running" \in StepStatuses(job) THEN "running"
    ELSE "pending"

\* C7 (the claim as stated): in every reachable state each job's status is
\* failed if any step is failed, else completed if all steps are completed,
\* else running if any step is running, else pending.
C7_StatusDerivationClaim ==
    \A j \in DOMAIN jobs : jobs[j].status = StatusOfSteps(jobs[j])

\* C7 (amended): each job's status is failed if any step is failed, else
\* completed if all steps are completed, else running if any step is running;
\* when no step is failed or running and not all are completed, the status is
\* running or pending.
C7_StatusDerivation ==
    \A j \in DOMAIN jobs :
        IF StatusOfSteps(jobs[j]) = "pending"
        THEN jobs[j].status \in {"running", "pending"}
        ELSE jobs[j].status = StatusOfSteps(jobs[j])

C7_Witness ==
    \E j \in DOMAIN jobs :
        /\ jobs[j].steps[1].status = "completed"
        /\ jobs[j].steps[2].status = "completed"
        /\ jobs[j].steps[3].status = "pending"
        /\ jobs[j].status = "running"
        /\ event.op = "updateJobStep"

\* C8 (the claim as stated): a step's status changes only pending -> running,
\* running -> completed, running -> failed, or to pending by retryJob.
C8_StepStateMachineClaim ==
    [][\A j \in DOMAIN jobs \cap DOMAIN jobs' :
          \A i \in 1..Len(STEP_IDS) :
             LET before == jobs[j].steps[i].status
                 after == jobs'[j].steps[i].status
             IN  before # after =>
                    \/ before = "pending" /\ after = "running"
                    \/ before = "running" /\ after \in {"completed", "failed"}
                    \/ after = "pending" /\ event'.op = "retryJob"]_vars

C10_RepeatedUnsubscribeClaim ==
    [][event'.op = "unsubscribe again" => callbacks' = callbacks]_vars

(***************************************************************************)
(* Properties of retryJob and of a run of executeWorkflow                  *)
(***************************************************************************)
\* a step as retryJob leaves it: pending, the times, duration and error
\* undefined, logs and details empty arrays, metadata the empty object
IsCleared(step) ==
    /\ step.status = "pending"
    /\ step.startTime = Undefined
    /\ step.endTime = Undefined
    /\ step.duration = Undefined
    /\ step.error = Undefined
    /\ step.logs = Some(<< >>)
    /\ step.details = << >>
    /\ step.metadata = Some("{}")

\* C11: immediately after retryJob(jobId) on an existing job every step of the
\* job is pending with start time, end time, duration, error, logs, details
\* and metadata cleared, the job is pending with its end time cleared, no step
\* is completed, and every subscriber is notified exactly once, with that job.
C11_RetryIsFullReset ==
    (event.op = "retryJob" /\ event.applied) =>
        /\ event.job \in DOMAIN jobs
        /\ LET job == jobs[event.job]
           IN  /\ \A i \in 1..Len(job.steps) : IsCleared(job.steps[i])
               /\ \A i \in 1..Len(job.steps) : job.steps[i].status # "completed"
               /\ job.status = "pending"
               /\ job.endTime = Undefined
               /\ notifications = << [job |-> job, to |-> callbacks] >>

\* retryJob has acted on a job whose run had already completed three steps and
\* failed, with a subscriber registered
C11_Witness ==
    /\ event.op = "retryJob" /\ event.applied
    /\ event.job \in DOMAIN workflow
    /\ workflow[event.job].pc = "ended"
    /\ workflow[event.job].pos = 8
    /\ callbacks # {}

Terminal(jobId) ==
    jobId \in DOMAIN jobs /\ jobs[jobId].status \in {"completed", "failed"}

\* C12: once startPDFProcessing has started a job, and every executor's
\* promise settles, the job eventually has status completed or failed.
C12_RunToCompletionClaim ==
    \A jobId \in JobIds :
        (event.op = "startPDFProcessing" /\ event.job = jobId)
            ~> Terminal(jobId)

\* C13: retryJob(jobId) on a failed job whose run has ended executes the
\* job's stages again from the first stage: after the call a run of
\* executeWorkflow for the job is under way, at the first step.
C13_RetryRerunsClaim ==
    [][\A jobId \in JobIds :
         ( /\ jobId \in DOMAIN jobs
           /\ jobs[jobId].status = "failed"
           /\ workflow[jobId].pc = "ended"
           /\ event'.op = "retryJob" /\ event'.job = jobId /\ event'.applied )
         => ( /\ workflow'[jobId].pc \in {"next", "await"}
              /\ workflow'[jobId].pos = 1 )]_vars

(***************************************************************************)
(* Properties of the convertapi-pdf-processor pipeline                     *)
(***************************************************************************)
ErrorCategories ==
    {"CONVERTAPI_REQUEST_FAILED", "CONVERSION_FAILED", "DOWNLOAD_FAILED",
     "STORAGE_ERROR", "DATABASE_ERROR", "PROCESSING_ERROR"}

FatalStages == {"convert", "extract-html", "store-knowledge"}

LastStage == stages[Len(stages)]

\* C14: when conversion, HTML extraction or the knowledge-base insert fails,
\* the stage that failed is the last one started, no knowledge entry is
\* inserted, the handler goes to the update of the processing record and the
\* response only; the update sets status failed with an error message that
\* carries one of the error categories (the row holds it when the database
\* applied the update, and is never completed), and the response is a failure
\* (success = false) with that category.
C14_FailFast ==
    thrown # Undefined =>
        /\ ppc \in {"failed-update", "responded"}
        /\ enhanced_knowledge_base = << >>
        /\ stages # << >>
        /\ LastStage.event = "start" /\ LastStage.stage \in FatalStages
        /\ processingRecord # Undefined
        /\ processingRecord[1].processing_status # "completed"
        /\ ppc = "failed-update" => httpResponse = Undefined
        /\ ppc = "responded" =>
              /\ pevent.op = "update" /\ pevent.input = "failed"
              /\ httpResponse # Undefined
              /\ httpResponse[1].success = Some(FALSE)
              /\ httpResponse[1].errorCategory # Undefined
              /\ httpResponse[1].errorCategory[1] \in ErrorCategories
              /\ pevent.result =>
                    /\ processingRecord[1].processing_status = "failed"
                    /\ processingRecord[1].error_message =
                          httpResponse[1].errorCategory

\* the knowledge-base insert failed after an image had been relocated, and the
\* failed status was written
C14_Witness ==
    /\ ppc = "responded"
    /\ thrown # Undefined
    /\ LastStage.stage = "store-knowledge"
    /\ processedImages # << >>
    /\ processingRecord[1].processing_status = "failed"

NonFatalCalls == {"downloadAndStoreImage", "processBase64Image", "upload",
                  "generateEmbedding"}

\* C15: no outcome of an image download or upload, of the upload of the final
\* HTML or of the embedding call aborts the run (after each the handler goes
\* on with the next call); a run in which conversion, HTML extraction and the
\* knowledge-base insert succeeded has inserted exactly one knowledge entry
\* and ends with the update to completed and a success response; after a
\* failed embedding call the entry's embedding is null.
C15_NonFatalFailuresDoNotAbort ==
    /\ pevent.op \in NonFatalCalls =>
          /\ thrown = Undefined
          /\ ppc \in {"image-download", "base64-upload", "html-upload",
                      "embedding", "knowledge-insert"}
    /\ (thrown = Undefined /\ ppc = "job-update") =>
          Len(enhanced_knowledge_base) = 1
    /\ (thrown = Undefined /\ ppc = "responded" /\ stages # << >>) =>
          /\ Len(enhanced_knowledge_base) = 1
          /\ pevent.op = "update" /\ pevent.input = "completed"
          /\ pevent.result => processingRecord[1].processing_status = "completed"
          /\ processingRecord[1].processing_status # "failed"
          /\ httpResponse[1].success = Some(TRUE)
    /\ (knowledgeEntry # Undefined
          /\ warnings \cap {"Error generating embedding",
                            "OpenAI API key not found"} # {}) =>
          knowledgeEntry[1].openai_embedding = Undefined
    /\ \A k \in 1..Len(enhanced_knowledge_base) :
          enhanced_knowledge_base[k] = knowledgeEntry[1]

\* a run in which an HTTP image, a base64 image, the HTML upload and the
\* embedding call all failed has completed
C15_Witness ==
    /\ ppc = "responded"
    /\ {"image skipped", "base64 image skipped",
        "Failed to upload HTML to storage", "Error generating embedding"}
          \subseteq warnings
    /\ Len(enhanced_knowledge_base) = 1
    /\ processingRecord[1].processing_status = "completed"

\* C16: in the workflow observer no step becomes running before all the
\* steps listed before it are completed (the stages of a job run one after
\* the other in the fixed order of the step list).
C16_StageOrderClaim ==
    [][\A jobId \in DOMAIN jobs' :
         \A k \in 1..Len(jobs'[jobId].steps) :
            ( /\ jobs'[jobId].steps[k].status = "running"
              /\ \/ jobId \notin DOMAIN jobs
                 \/ jobs[jobId].steps[k].status # "running" )
            => \A n \in 1..k - 1 :
                  jobs'[jobId].steps[n].status = "completed"]_vars

\* the relocation manifest of a run: metadata.processed_images of the entry
Manifest(entry) ==
    {entry.processed_images[k].original_url :
        k \in 1..Len(entry.processed_images)}

\* C17: every HTTP reference extractImageUrls returned and every base64
\* reference extractBase64Images returned is recorded in the relocation
\* manifest of the knowledge entry of the run (the entry has success entries
\* only, so a reference is recorded when it is one of them).
C17_ManifestCompletenessClaim ==
    knowledgeEntry # Undefined =>
        /\ \A k \in 1..Len(imageUrls) :
              imageUrls[k] \in Manifest(knowledgeEntry[1])
        /\ \A k \in 1..Len(base64Images) :
              base64Images[k].src \in Manifest(knowledgeEntry[1])

\* the number of places of s where pattern occurs
Occurrences(s, pattern) ==
    Cardinality({k \in 1..Len(s) - Len(pattern) + 1 :
                    SubSeq(s, k, k + Len(pattern) - 1) = pattern})

Distinct(s) == \A k, n \in 1..Len(s) : s[k] = s[n] => k = n

\* C18: the final HTML has no occurrence of the original reference of a
\* relocated image and at least one occurrence of the new public URL of each
\* relocated image; stated for the documents whose discovered references are
\* HTTP references, pairwise different.
C18_RewriteRoundTripClaim ==
    ( /\ finalHtmlContent # Undefined
      /\ Distinct(imageUrls)
      /\ base64Images = << >> ) =>
        /\ \A k \in 1..Len(processedImages) :
              /\ Occurrences(finalHtmlContent[1],
                             processedImages[k].originalUrl) = 0
              /\ Occurrences(finalHtmlContent[1],
                             processedImages[k].supabaseUrl) >= 1
        /\ \A k \in 1..Len(processedBase64Images) :
              /\ Occurrences(finalHtmlContent[1],
                             processedBase64Images[k].originalSrc) = 0
              /\ Occurrences(finalHtmlContent[1],
                             processedBase64Images[k].supabaseUrl) >= 1

\* the places of html where an img tag has a base64 source that the
\* tag-scoped pattern matches and where the free-standing pattern matches too
BothPatternsAt(html) ==
    {p \in 3..Len(html) - 1 :
        /\ html[p] = DATA /\ html[p - 1] = Q /\ html[p - 2] = SRC
        /\ html[p + 1] \notin StandaloneStop
        /\ \E q \in 1..p - 3 :
              /\ ImgTagAt(html, q, <<DATA>>).found
              /\ ImgTagAt(html, q, <<DATA>>).value =
                    SubSeq(html, p, FirstIn(html, p, {Q}) - 1)}

\* C19: discovery on the same HTML gives the same two lists again, no two
\* entries of extractBase64Images have the same data URL, and a base64 image
\* that both patterns match is in the result exactly once (one entry holds
\* what either pattern captured of it).
C19_DiscoveryDedupClaim ==
    ppc \in {"image-download", "base64-upload", "html-upload"} =>
        /\ extractImageUrls(htmlContent) = imageUrls
        /\ extractBase64Images(htmlContent) = base64Images
        /\ \A k, n \in 1..Len(base64Images) :
              base64Images[k].src = base64Images[n].src => k = n
        /\ \A p \in BothPatternsAt(htmlContent) :
              Cardinality({k \in 1..Len(base64Images) :
                  \/ base64Images[k].src =
                        SubSeq(htmlContent, p, FirstIn(htmlContent, p, {Q}) - 1)
                  \/ base64Images[k].src =
                        DataUrl(ExecStandalone(htmlContent, p).value)}) = 1

\* C20: downloadAndStoreImage accepts an image of exactly 5 MB (status ok, an
\* image content type, the upload succeeding) and returns no relocation for
\* 5 MB + 1 byte, for a status that is not ok, and for a content type that is
\* absent or does not start with image/.
C20_ImageSizeBoundary ==
    pevent.op = "downloadAndStoreImage" =>
        LET r == pevent.input
            image == r.contentType # Undefined
                        /\ r.contentType[1][1] = "image/"
        IN  /\ ( /\ ~r.rejects /\ r.ok /\ image /\ ~r.uploadError
                 /\ r.size = 5 * 1024 * 1024 )
               => /\ pevent.result # Undefined
                  /\ pevent.result[1].size = 5 * 1024 * 1024
                  /\ pevent.result[1] = processedImages[Len(processedImages)]
            /\ r.size = 5 * 1024 * 1024 + 1 => pevent.result = Undefined
            /\ ~r.ok => pevent.result = Undefined
            /\ ~image => pevent.result = Undefined
            /\ pevent.result = Undefined =>
                  Len(processedImages) < Len(imageUrls)

\* an image of exactly 5 MB has been stored after one of 5 MB + 1 byte was
\* skipped
C20_Witness ==
    /\ pevent.op = "downloadAndStoreImage"
    /\ pevent.input.size = 5 * 1024 * 1024
    /\ pevent.result # Undefined
    /\ Len(imageUrls) = 2
    /\ Len(processedImages) = 1
    /\ "image skipped" \in warnings

(***************************************************************************)
(* C28: the default scoring heuristic                                      *)
(***************************************************************************)
\* the score recorded for the i-th call, which resolved
RecordedScore(i) == ScoreOf(attempts[i])

\* C28 (as stated): taking the cases in the order content, error, anything
\* else, every resolved call whose result has a non-empty content field (text,
\* raw_response or image_url) is scored 0.9, a result with an error or an
\* error status 0.1, and every other result 0.3.
C28_ContentFirstClaim ==
    \A i \in Successful(attempts) :
        LET r == calls[i].result
        IN  RecordedScore(i) =
               IF r.truthy /\ r.content THEN 9
               ELSE IF r.truthy /\ (r.error \/ r.statusError) THEN 1
               ELSE 3

\* C28 (amended): the error case is taken first.  A result with a truthy
\* error or the status 'error' is scored 0.1 whatever else it holds; of the
\* others, a result with a non-empty content field or with any own key at all
\* is scored 0.9; what is left (a falsy value or an object with no keys) is
\* scored 0.3.  The score is always one of 0.1, 0.3, 0.9.
C28_DefaultScoring ==
    \A i \in Successful(attempts) :
        LET r == calls[i].result
        IN  /\ RecordedScore(i) \in {1, 3, 9}
            /\ RecordedScore(i) =
                  IF r.truthy /\ (r.error \/ r.statusError) THEN 1
                  ELSE IF r.truthy /\ (r.content \/ r.keys > 0) THEN 9
                  ELSE 3

\* a result with both a text and an error was scored 0.1 and a result whose
\* only key is no content field was scored 0.9
C28_Witness ==
    /\ \E i \in Successful(attempts) :
          calls[i].result = jsTextAndError /\ RecordedScore(i) = 1
    /\ \E i \in Successful(attempts) :
          calls[i].result = jsOtherKey /\ RecordedScore(i) = 9

(***************************************************************************)
(* C21: the truncation boundaries                                          *)
(***************************************************************************)
\* C21: extractTextFromHTML never returns more than 8,000 characters and
\* returns exactly the first 8,000 of a cleaned text that is longer; the text
\* posted to the embedding service has at most 4,000 characters; HTML of at
\* most 1,048,576 characters is stored unchanged, and longer HTML is stored
\* as its first 1,048,576 characters followed by the truncation marker.
C21_TruncationBoundaries ==
    /\ textCall.op = "extractTextFromHTML"
       => /\ Length(textCall.output) <= 8000
          /\ Length(CleanedText(textCall.input)) > 8000
             => /\ Length(textCall.output) = 8000
                /\ textCall.output = Substring(CleanedText(textCall.input),
                                               8000)
          /\ Length(CleanedText(textCall.input)) <= 8000
             => textCall.output = CleanedText(textCall.input)
    /\ textCall.op = "generateEmbedding" /\ textCall.output # Undefined
       => /\ Length(textCall.output[1]) <= 4000
          /\ textCall.output[1] = Substring(textCall.input, 4000)
    /\ textCall.op = "contentToStore"
       => IF Length(textCall.input) <= 1048576
          THEN textCall.output = textCall.input
          ELSE /\ Len(textCall.output) >= 2
               /\ textCall.output[Len(textCall.output)]
                     = Run(TRUNCATION_MARKER, 1)
               /\ SubSeq(textCall.output, 1, Len(textCall.output) - 1)
                     = Substring(textCall.input, 1048576)
               /\ Length(textCall.output) = 1048576 + MarkerLength

\* a cleaned text of 8,001 characters was cut to 8,000
C21_WitnessText ==
    /\ textCall.op = "extractTextFromHTML"
    /\ Length(CleanedText(textCall.input)) = 8001
    /\ Length(textCall.output) = 8000

\* HTML of exactly 1,048,576 characters was stored unchanged
C21_WitnessKept ==
    /\ textCall.op = "contentToStore"
    /\ Length(textCall.input) = 1048576
    /\ textCall.output = textCall.input

\* HTML of 1,048,577 characters was stored cut, with the marker
C21_WitnessCut ==
    /\ textCall.op = "contentToStore"
    /\ Length(textCall.input) = 1048577
    /\ textCall.output # textCall.input

\* a text of more than 4,000 characters was posted as 4,000
C21_WitnessEmbedding ==
    /\ textCall.op = "generateEmbedding"
    /\ Length(textCall.input) > 4000
    /\ textCall.output # Undefined
    /\ Length(textCall.output[1]) = 4000

(***************************************************************************)
(* C22..C27, C30: confidence, categories, counts, the rows of the run      *)
(***************************************************************************)
\* the run has reached its success response
Succeeded ==
    httpResponse # Undefined /\ httpResponse[1].success = Some(TRUE)

\* C22 (as stated): the image_processing sub-score of the stored entry is 0.8
\* if any discovered image, HTTP or base64, was relocated in the run, and 0.0
\* if none was.
C22_ImageConfidenceClaim ==
    \A k \in 1..Len(enhanced_knowledge_base) :
        enhanced_knowledge_base[k].confidence_scores.image_processing =
            IF Len(processedImages) + Len(processedBase64Images) > 0
            THEN 80 ELSE 0

\* a non-fatal failure happened in the run: an image that was found was not
\* relocated, or the embedding call failed
NonFatalFailure ==
    \/ Len(processedImages) < Len(imageUrls)
    \/ Len(processedBase64Images) < Len(base64Images)
    \/ "Error generating embedding" \in warnings

\* the confidence scores of the run on the same input in which every image is
\* relocated and the embedding is returned
CleanRunScores ==
    LET images == [k \in 1..Len(imageUrls) |->
                      [originalUrl |-> imageUrls[k],
                       supabaseUrl |-> imageUrls[k],
                       filename |-> "", size |-> 0]]
    IN  KnowledgeEntry(<< >>, <<1>>, imageUrls, images, base64Images,
                       base64Images).confidence_scores

\* C23 (as stated): a run that completes with a non-fatal failure stores an
\* entry and returns a response whose confidence is lower than that of the
\* run on the same input without the failure: some score of the entry or the
\* confidence of the response is lower, and none is higher.
C23_DegradedConfidenceClaim ==
    Succeeded /\ NonFatalFailure
    => LET scores == enhanced_knowledge_base[1].confidence_scores
           clean == CleanRunScores
       IN  /\ \A f \in DOMAIN scores : scores[f] <= clean[f]
           /\ httpResponse[1].confidence[1] <= OVERALL_CONFIDENCE
           /\ \/ \E f \in DOMAIN scores : scores[f] < clean[f]
              \/ httpResponse[1].confidence[1] < OVERALL_CONFIDENCE

\* the phrases either if-chain looks for
CategoryPhrases ==
    {"convertapi_key", "convertapi key", "convertapi request failed",
     "no html file", "failed to download html", "failed to upload", "upload",
     "storage", "embedding", "openai", "knowledge base", "database", "memory",
     "limit", "timeout", "time"}

\* a pipeline stage has failed and the failure response is returned
StageFailed ==
    /\ thrown # Undefined
    /\ httpResponse # Undefined
    /\ httpResponse[1].success = Some(FALSE)

\* C24 (as stated): when a pipeline stage fails, the category of the failure
\* response, which the failed row carries too, follows from the lower-cased
\* message: "convertapi request failed" gives CONVERTAPI_REQUEST_FAILED,
\* "storage" gives STORAGE_ERROR, "embedding" or "openai" gives
\* EMBEDDING_ERROR, "timeout" gives TIMEOUT_ERROR, and a message with no
\* pattern gives UNKNOWN_ERROR.  Each case is read for a message that holds no
\* phrase of another category.
C24_CategorizationClaim ==
    StageFailed
    => LET message == thrown[1]
           category == httpResponse[1].errorCategory[1]
           Only(phrases) == message \cap CategoryPhrases \subseteq phrases
       IN  /\ "convertapi request failed" \in message
                 /\ Only({"convertapi request failed"})
              => category = "CONVERTAPI_REQUEST_FAILED"
           /\ "storage" \in message /\ Only({"storage"})
              => category = "STORAGE_ERROR"
           /\ ("embedding" \in message \/ "openai" \in message)
                 /\ Only({"embedding", "openai"})
              => category = "EMBEDDING_ERROR"
           /\ "timeout" \in message /\ Only({"timeout", "time"})
              => category = "TIMEOUT_ERROR"
           /\ Only({}) => category = "UNKNOWN_ERROR"
           /\ processingRecord[1].processing_status = "failed"
              => processingRecord[1].error_message = Some(category)

Range(s) == {s[k] : k \in 1..Len(s)}

\* the document with one external image and one inline base64 image
OneOfEach == ImageTag(<<HTTP, "a">>) \o ImageTag(<<DATA, "a">>)

\* C25: the metadata of every stored entry reports images_found as the number
\* of HTTP references discovered, images_processed as the number of them that
\* were relocated (all of them exactly when none was skipped), and the same
\* for base64 images, with processed <= found for both kinds.  For the
\* document with one external and one inline image, both relocated, the
\* counts are 1, 1, 1, 1 and the stored content holds neither reference.
C25_RelocationCounts ==
    \A k \in 1..Len(enhanced_knowledge_base) :
        LET entry == enhanced_knowledge_base[k]
            info == entry.storage_info
        IN  /\ info.images_found = Len(extractImageUrls(htmlContent))
            /\ info.images_processed = Len(processedImages)
            /\ \A n \in 1..Len(processedImages) :
                  processedImages[n].originalUrl \in Range(imageUrls)
            /\ info.images_processed <= info.images_found
            /\ info.images_processed = info.images_found
                  <=> "image skipped" \notin warnings
            /\ info.base64_images_found
                  = Len(extractBase64Images(htmlContent))
            /\ info.base64_images_processed = Len(processedBase64Images)
            /\ info.base64_images_processed <= info.base64_images_found
            /\ info.base64_images_processed = info.base64_images_found
                  <=> "base64 image skipped" \notin warnings
            /\ ( /\ htmlContent = OneOfEach
                 /\ warnings \cap {"image skipped", "base64 image skipped"}
                       = {} )
               => /\ info = [images_processed |-> 1, images_found |-> 1,
                             base64_images_processed |-> 1,
                             base64_images_found |-> 1]
                  /\ Occurrences(entry.content, <<HTTP, "a">>) = 0
                  /\ Occurrences(entry.content, <<DATA>>) = 0

\* the document with one image of each kind was stored, both relocated
C25_Witness ==
    /\ Len(enhanced_knowledge_base) = 1
    /\ htmlContent = OneOfEach
    /\ Len(processedImages) = 1
    /\ Len(processedBase64Images) = 1
    /\ Succeeded

\* C26 (as stated): whenever the success response is returned (success=true
\* with a knowledgeEntryId), the row of the run in pdf_processing_results has
\* the status completed, also when the update of the row reported an error.
C26_SuccessImpliesCompletedClaim ==
    ( /\ Succeeded
      /\ httpResponse[1].knowledgeEntryId # Undefined )
    => /\ processingRecord # Undefined
       /\ processingRecord[1].processing_status = "completed"

\* the status of the row, "none" before the insert
RowStatus(record) ==
    IF record = Undefined THEN "none" ELSE record[1].processing_status

\* C27: the row of the run is created with the status processing, before any
\* stage starts; its status changes only from processing to completed or from
\* processing to failed, so at most once in a run; the row is never deleted.
C27_RowLifecycle ==
    [][ /\ RowStatus(processingRecord) = "none"
           => /\ stages = << >>
              /\ RowStatus(processingRecord') \in {"none", "processing"}
        /\ RowStatus(processingRecord) # "none"
           => RowStatus(processingRecord') # "none"
        /\ RowStatus(processingRecord) = "processing"
           => RowStatus(processingRecord')
                 \in {"processing", "completed", "failed"}
        /\ RowStatus(processingRecord) \in {"completed", "failed"}
           => processingRecord' = processingRecord
        /\ stages' # << >> => RowStatus(processingRecord') # "none" ]_vars

\* a row went from processing to failed
C27_Witness ==
    /\ RowStatus(processingRecord) = "failed"
    /\ pevent = PipelineEvent("update", "failed", TRUE)

\* the positions of a stage event in the history
PositionsOf(e) == {k \in 1..Len(stages) : stages[k] = e}

\* C30: a run inserts at most one knowledge entry; the insert happens in the
\* store stage, after text extraction and embedding generation have ended,
\* and the row it adds is the entry STEP 6 built; a run whose processing
\* record is completed has inserted exactly one.
C30_KnowledgeEntryOnce ==
    /\ Len(enhanced_knowledge_base) <= 1
    /\ PositionsOf(End("store-knowledge")) = {}
       => enhanced_knowledge_base = << >>
    /\ Len(enhanced_knowledge_base) = 1
       => /\ enhanced_knowledge_base[1] = knowledgeEntry[1]
          /\ \E t, g, s \in 1..Len(stages) :
                /\ stages[t] = End("extract-text")
                /\ stages[g] = End("generate-embedding")
                /\ stages[s] = Start("store-knowledge")
                /\ t < s /\ g < s
          /\ Cardinality(PositionsOf(Start("store-knowledge"))) = 1
    /\ RowStatus(processingRecord) = "completed"
       => Len(enhanced_knowledge_base) = 1

\* a completed run with its one entry
C30_Witness ==
    /\ RowStatus(processingRecord) = "completed"
    /\ Len(enhanced_knowledge_base) = 1
    /\ ppc = "responded"

(***************************************************************************)
(* C29: no partially applied update is observable                          *)
(***************************************************************************)
\* the status of the job is the one updateJobStep derives from each of its
\* steps: deriving it again for any step changes nothing
FullyApplied(job) ==
    /\ \A i \in 1..Len(job.steps) :
          DeriveStatus(job, [status |-> job.steps[i].status]).status
             = job.status
    /\ job.status \in {"failed", "completed"} => job.endTime # Undefined

\* C29: whatever getJob returns, in any state between two handlers, and
\* whatever a subscriber is passed, is a job whose status has been derived
\* from its steps; the job passed last by a handler is the job the map holds
\* when the handler has returned; an applied step update is visible in both
\* with the step's new status and the job status derived from it.
C29_NoPartialUpdate ==
    /\ \A jobId \in JobIds :
          getJob(jobs, jobId) # Undefined
             => FullyApplied(getJob(jobs, jobId)[1])
    /\ \A n \in 1..Len(notifications) : FullyApplied(notifications[n].job)
    /\ notifications # << >>
       => getJob(jobs, event.job)
             = Some(notifications[Len(notifications)].job)
    /\ event.op = "updateJobStep" /\ event.applied
       => LET job == getJob(jobs, event.job)[1]
              step == job.steps[findIndex(job.steps, event.step)]
          IN  /\ notifications = <<notifyUpdate(callbacks, job)>>
              /\ step.status = "failed" => job.status = "failed"
              /\ step.status = "running" => job.status = "running"
              /\ ( step.status = "completed"
                   /\ \A i \in 1..Len(job.steps) :
                         job.steps[i].status = "completed" )
                 => job.status = "completed"

\* a subscriber was passed a job whose step had just failed, and the job it
\* was passed is failed
C29_Witness ==
    /\ event.op = "updateJobStep" /\ event.applied
    /\ callbacks # {}
    /\ Len(notifications) = 1
    /\ notifications[1].job.status = "failed"
    /\ \E i \in 1..Len(notifications[1].job.steps) :
          notifications[1].job.steps[i].status = "failed"

(***************************************************************************)
(* C31, C40: the attempts after a failure, the response                    *)
(***************************************************************************)
\* C31: an attempt that throws is recorded with success=false and the error
\* and does not end the dispatch: the provider next in priority order is
\* attempted after it exactly when fewer than maxRetries attempts have been
\* made and an available provider is left that has not been tried.
C31_FailureContinues ==
    /\ hpc # "raised"
    /\ \A i \in 1..Len(calls) :
          calls[i].threw =>
             /\ attempts[i].provider = calls[i].provider
             /\ attempts[i].success = FALSE
             /\ attempts[i].error # Undefined
             /\ attempts[i].score = Undefined
             /\ i < Len(calls)
                => /\ i < maxRetries
                   /\ i < Len(sortedProviders(providers))
                   /\ calls[i + 1].provider
                         = sortedProviders(providers)[i + 1].name
                   /\ \A k \in 1..i : calls[k].provider # calls[i + 1].provider
             /\ (i = Len(calls) /\ hpc \in {"return", "done"})
                => ~(i < maxRetries /\ i < Len(sortedProviders(providers)))

\* the first provider threw and the second was attempted and answered
C31_Witness ==
    /\ hpc = "done"
    /\ Len(calls) = 2
    /\ calls[1].threw
    /\ ~calls[2].threw
    /\ attempts[1].success = FALSE
    /\ attempts[2].success = TRUE

\* C40: in every response success=true holds exactly when final_score > 0
\* and provider is not 'none'.  With success=true the provider is that of a
\* successful attempt whose score is final_score, final_score is the highest
\* score of the successful attempts, the attempt is the earliest with that
\* score, and data is what that provider returned.
C40_ResponseConsistency ==
    hpc = "done" =>
       LET r == response[1]
       IN  /\ r.attempts = attempts
           /\ r.success <=> (r.final_score > 0 /\ r.provider # "none")
           /\ r.success =>
                \E i \in Successful(attempts) :
                   /\ attempts[i].provider = r.provider
                   /\ ScoreOf(attempts[i]) = r.final_score
                   /\ r.final_score = MaxScore(attempts, Successful(attempts))
                   /\ \A k \in Successful(attempts) :
                         k < i => ScoreOf(attempts[k]) < r.final_score
                   /\ calls[i].provider = r.provider
                   /\ r.data = calls[i].result

\* a success response after two successful attempts with the same score
C40_Witness ==
    /\ hpc = "done"
    /\ response[1].success
    /\ Len(attempts) = 2
    /\ Successful(attempts) = {1, 2}
    /\ ScoreOf(attempts[1]) = ScoreOf(attempts[2])
    /\ calls[1].result # calls[2].result

(***************************************************************************)
(* C32: the source of the HTML in STEP 2                                   *)
(***************************************************************************)
ExtractFailed ==
    thrown \in {Some(FailedToDownloadHtml), Some(NoHtmlContent)}

InlinePayloadAvailable == htmlFile # Undefined /\ htmlFile[1].FileData

\* C32 (as stated): the extraction of the HTML fails only when no content is
\* obtainable: it never fails while the HTML file carries an inline payload
\* (a truthy FileData).
C32_InlineFallbackClaim == ExtractFailed => ~InlinePayloadAvailable

(***************************************************************************)
(* C33: relocation when nothing is found or nothing is relocated           *)
(***************************************************************************)
NothingFound == imageUrls = << >> /\ base64Images = << >>

NothingRelocated == processedImages = << >> /\ processedBase64Images = << >>

\* C33: once STEP 4 has built the final HTML of a run in which no image was
\* relocated (none was found, or every one found failed), the final HTML is
\* the extracted HTML, the relocation stage has ended and no error is held
\* on its account: an error held after that point comes from the insert of
\* the knowledge entry only. The entry of such a run reports zero images
\* processed, and zero images found when none was discovered.
C33_RelocationEdgeCases ==
    (finalHtmlContent # Undefined /\ NothingRelocated) =>
        /\ finalHtmlContent[1] = htmlContent
        /\ Occurrences(stages, <<End("relocate-images")>>) = 1
        /\ thrown # Undefined => LastStage = Start("store-knowledge")
        /\ knowledgeEntry # Undefined =>
              LET info == knowledgeEntry[1].storage_info
              IN  /\ knowledgeEntry[1].content = htmlContent
                  /\ info.images_processed = 0
                  /\ info.base64_images_processed = 0
                  /\ NothingFound =>
                        info.images_found = 0 /\ info.base64_images_found = 0
                  /\ info.images_found = Len(imageUrls)
                  /\ info.base64_images_found = Len(base64Images)

\* a run that found an HTTP image and a base64 image, relocated neither, and
\* returned success with the extracted HTML stored as it was
C33_Witness ==
    /\ Succeeded
    /\ htmlContent = OneOfEach
    /\ imageUrls # << >> /\ base64Images # << >>
    /\ NothingRelocated
    /\ enhanced_knowledge_base[1].content = htmlContent
    /\ enhanced_knowledge_base[1].storage_info.images_processed = 0

\* a run that found no image and returned success
C33_WitnessNothingFound ==
    /\ Succeeded
    /\ htmlContent # << >>
    /\ NothingFound
    /\ enhanced_knowledge_base[1].storage_info.images_found = 0

(***************************************************************************)
(* C34..C39: the jobs of the workflow observer                             *)
(***************************************************************************)
FailedSteps(job) == {i \in 1..Len(job.steps) : job.steps[i].status = "failed"}

RunningSteps(job) == {i \in 1..Len(job.steps) : job.steps[i].status = "running"}

StatusVector(job) == [i \in 1..Len(job.steps) |-> job.steps[i].status]

\* C34 (as stated): whenever a job has status failed, exactly one of its
\* steps is failed and carries an error message, every step before it is
\* completed and every step after it is pending.
C34_FailedStepClaim ==
    \A j \in DOMAIN jobs :
        jobs[j].status = "failed" =>
            /\ Cardinality(FailedSteps(jobs[j])) = 1
            /\ \A i \in FailedSteps(jobs[j]) :
                  /\ jobs[j].steps[i].error # Undefined
                  /\ \A k \in 1..(i - 1) : jobs[j].steps[k].status = "completed"
                  /\ \A k \in (i + 1)..Len(jobs[j].steps) :
                        jobs[j].steps[k].status = "pending"

\* C35: a job that is in the map stays in the map under its id through every
\* operation (step updates, failure, completion, retryJob), so getJob
\* returns it in every later state; a getJob call for a started job finds it.
C35_JobRetention ==
    [][/\ \A j \in DOMAIN jobs :
             /\ j \in DOMAIN jobs'
             /\ getJob(jobs', j) # Undefined
             /\ getJob(jobs', j)[1].id = j
       /\ (event'.op = "startPDFProcessing") =>
             getJob(jobs', event'.job) # Undefined
       /\ (event'.op = "getJob" /\ event'.job \in DOMAIN workflow) =>
             event'.applied]_vars

\* a getJob call that finds the job after it failed and was retried
C35_Witness ==
    /\ event.op = "getJob" /\ event.applied
    /\ jobs[event.job].status = "pending"
    /\ workflow[event.job].pc = "ended"

\* C37: every job has at most one running step in every reachable state,
\* retryJob calls during the run included.
C37_AtMostOneRunning ==
    \A j \in DOMAIN jobs : Cardinality(RunningSteps(jobs[j])) <= 1

\* a run that was reset by retryJob while a step was awaited and has a later
\* step running
C37_Witness ==
    \E j \in DOMAIN jobs :
        /\ jobs[j].steps[1].status = "pending"
        /\ jobs[j].steps[2].status = "completed"
        /\ jobs[j].steps[3].status = "running"

\* C38: a job has status completed only if every step is completed, and
\* status failed only if some step is failed.
C38_TerminalStatusJustified ==
    \A j \in DOMAIN jobs :
        /\ jobs[j].status = "completed" =>
              \A i \in 1..Len(jobs[j].steps) :
                  jobs[j].steps[i].status = "completed"
        /\ jobs[j].status = "failed" => FailedSteps(jobs[j]) # {}

\* a job that completed and a job that failed after a reset
C38_WitnessCompleted ==
    \E j \in DOMAIN jobs : jobs[j].status = "completed"

C38_Witness ==
    \E j \in DOMAIN jobs :
        /\ jobs[j].status = "failed"
        /\ jobs[j].steps[1].status = "pending"
        /\ jobs[j].steps[2].status = "failed"

\* C39: from a state in which a step of a job is failed, every operation
\* other than retryJob on that job leaves the statuses of all its steps as
\* they are (no later step becomes running) and the job failed.
C39_FailureStops ==
    [][\A j \in DOMAIN jobs :
          (FailedSteps(jobs[j]) # {}
           /\ ~(event'.op = "retryJob" /\ event'.job = j)) =>
              /\ j \in DOMAIN jobs'
              /\ StatusVector(jobs'[j]) = StatusVector(jobs[j])
              /\ jobs[j].status = "failed"
              /\ jobs'[j].status = "failed"]_vars

\* the catch block of executeWorkflow ran on a failed job and changed nothing
C39_Witness ==
    /\ event.op = "catch"
    /\ jobs[event.job].status = "failed"
    /\ jobs[event.job].steps[8].status = "failed"
    /\ workflow[event.job].pc = "ended"

\* C36: with two jobs in flight, an operation on one job (a step update, a
\* failure, the catch block, retryJob) leaves the other job as it was:
\* status, steps and end time, and where its own run stands.
C36_JobIsolation ==
    [][\A j \in DOMAIN jobs :
          j # event'.job =>
             /\ j \in DOMAIN jobs'
             /\ jobs'[j] = jobs[j]
             /\ jobs'[j].status = jobs[j].status
             /\ jobs'[j].steps = jobs[j].steps
             /\ jobs'[j].endTime = jobs[j].endTime
             /\ workflow'[j] = workflow[j]]_vars

\* retryJob has just reset one job while the other, started before or after,
\* is failed at its second step with the first one completed
C36_Witness ==
    /\ DOMAIN jobs = TwoJobIds
    /\ event.op = "retryJob" /\ event.job = "job-1"
    /\ jobs["job-1"].status = "pending"
    /\ workflow["job-1"].pc = "await"
    /\ jobs["job-2"].status = "failed"
    /\ jobs["job-2"].steps[1].status = "completed"
    /\ jobs["job-2"].steps[2].status = "failed"

====
